---- MODULE Spec2Model ----
(***************************************************************************)
(* State-machine model of the AfroCreate settlement contracts              *)
(* (packages/smart-contracts): ProjectFunding, RevenueShareNFT,            *)
(* OracleManager, RevenueDistributor and AfroCreatePlatform.               *)
(*                                                                         *)
(* Every public entry point is one atomic action.  A Stylus entry point    *)
(* that returns Err reverts the call, so a failing call leaves the         *)
(* contract storage and the contract's ether balance as they were; the     *)
(* only thing a failing call changes in the model is `last`, the record    *)
(* of the most recent call and its result (return status, error, value     *)
(* transferred to each address, events logged).                            *)
(*                                                                         *)
(* Amounts are U256 wei in the source.  Call values are bounded by the     *)
(* ether supply, so the sums and products below never reach 2^256 and are  *)
(* modelled on unbounded integers; the one subtraction that can go below   *)
(* zero (the creator payout in finalize_successful_project) is modelled    *)
(* with its wrap-around explicitly.                                        *)
(***************************************************************************)
EXTENDS Integers, Naturals, Sequences, FiniteSets, TLC

----------------------------------------------------------------------------
(* Bounds of the finite instance *)

MaxTime == 3        \* block timestamps range over 0..MaxTime
MaxAmount == 33     \* the largest msg::value offered to fund_project
MaxTokens == 2      \* the registry mints at most this many tokens
MaxShareTokens == 1 \* tokens minted in SpecShare
MaxRevenue == 700   \* cap on a project's total revenue in the registry
MaxOracles == 3     \* register_oracle calls accepted by the oracle manager
MaxAccuracy == 3    \* cap on the running accuracy score of an oracle
MaxSubmissions == 4 \* longest list of amounts offered to calculate_consensus
MaxSupportedSources == 4  \* longest supported_sources list of the distributor
MaxDistRevenue == 1666    \* cap on a project's total revenue in the distributor
MaxPlatformProjects == 2  \* projects the platform creates
MaxChallenges == 1        \* challenge_revenue_report calls accepted per project

(* Program constants, in model units *)

MIN_CONTRIBUTION == 20  \* 0.001 ETH, project_funding.rs:74 (1 unit = 0.00005 ETH)
MIN_CLAIM_AMOUNT == 20  \* 0.001 ETH, revenue_share_nft.rs:110
CLAIM_FEE_BPS == 100    \* revenue_share_nft.rs:111
TRANSFER_RESTRICTION_PERIOD == 1  \* 30 days, revenue_share_nft.rs:109 (1 time unit = 30 days)
REFUND_PERIOD == 1      \* 30 days, project_funding.rs:75 (1 time unit = 30 days)
BPS_DENOMINATOR == 10000

MIN_ORACLES_REQUIRED == 3    \* oracle_manager.rs:85
CONSENSUS_THRESHOLD == 70    \* oracle_manager.rs:86

DIST_PLATFORM_FEE_BPS == 300     \* revenue_distributor.rs:118
MIN_DISTRIBUTION_AMOUNT == 500   \* 0.001 ETH, revenue_distributor.rs:119 (the distributor's unit is 0.000002 ETH)
DISTRIBUTION_FREQUENCY == 1      \* 24 hours, revenue_distributor.rs:120 (the distributor's time unit is 24 hours)
CREATOR_SHARE_DEFAULT == 3000    \* revenue_distributor.rs:121
MAX_PLATFORM_FEE_BPS == 1000     \* the bound of the set_platform_fee functions
PLATFORM_FEE_BPS == 300          \* types/mod.rs:189

Zero == "0x0"       \* Address::ZERO
OwnerAddr == "owner"
PlatformAddr == "platform"
FundingAddr == "funding"    \* the ProjectFunding contract, as a caller
CreatorAddr == "creator"
Backers == {"b1", "b2"}
Addresses == {OwnerAddr, PlatformAddr, CreatorAddr} \cup Backers

Projects == {1, 2}          \* project ids the storage maps are modelled for
Campaigns == {1}            \* project ids offered to the calls of Spec
Targets == {MIN_CONTRIBUTION + MaxAmount}        \* targets offered to setup_project_funding
Deadlines == {1}            \* deadlines offered to setup_project_funding
ModelCodes == 0 .. 3        \* funding_model argument; 3 is not a FundingModel
MilestoneChoices == {<<MIN_CONTRIBUTION + MaxAmount>>, <<10, 20>>}  \* funding_amount of each milestone
FeeChoices == {0, 300, 20000}
AdminCallers == {OwnerAddr, PlatformAddr, "b1"}   \* callers of the restricted functions
ShareChoices == {4000, 6000, 10001}  \* revenue_share_bps offered to the registry
RevenueAmounts == {0, 333}           \* total_amount offered to batch_distribute_revenue
TokenIds == 0 .. MaxTokens  \* token ids the model stores; minted ids start at 1
Amounts == {MIN_CONTRIBUTION - 1, MIN_CONTRIBUTION, MaxAmount}
MilestoneIds == 0 .. 2      \* milestone_id offered to release_milestone_funds
\* recipients that reject a payment during a call
RefundRejects == {{}, {"b1"}}
CreatorRejects == {{}, {CreatorAddr}}
OwnerRejects == {{}, {OwnerAddr}}

OracleAddrs == {"o1", "o2", "o3"}
Sources == {"spotify", "youtube"}
SubmitAmounts == {100, 150}          \* amount offered to submit_revenue_data
\* amounts offered to calculate_consensus
AmountChoices == {90, 91, 98, 100, 102, 111, 112, 150}
ParameterChoices == {<<1, 70>>, <<2, 51>>, <<3, 101>>}   \* min_oracles, threshold

\* source names of the distributor: two with an oracle feed, one that needs no
\* verification and one that initialize does not install
AllSources == Sources \cup {"soundcloud", "tiktok"}
\* ENS subdomains, as sequences of characters
EnsNames == {<<"k", "e", "m", "i">>, <<"a", "d", "a">>, <<"a", "b">>,
             <<"-", "a", "b">>, <<"a", "_", "b">>}
Alphanumeric == {"a", "b", "d", "e", "i", "k", "m"}
Categories == {"Music", "Gambling"}   \* cultural_category offered to create_project
PlatformProjectIds == 1 .. MaxPlatformProjects

VARIABLES
    owner,                  \* ProjectFunding.owner
    platform_contract,
    platform_fee_bps,
    min_contribution,
    refund_period,
    project_funding,        \* projectId -> FundingInfo
    funding_models,
    backer_contributions,   \* projectId -> (backer -> amount)
    project_backers,        \* projectId -> backers list
    project_escrow,
    platform_treasury,
    project_milestones,     \* projectId -> sequence of funding amounts
    milestone_releases,     \* projectId -> set of released milestone ids
    milestone_completion,   \* projectId -> set of completed milestone ids
    authorized_callers,
    total_projects_funded,
    total_amount_raised,
    locked,
    balance,                \* ether held by the ProjectFunding contract
    nft_owner,              \* RevenueShareNFT.owner
    minters,
    revenue_distributor,
    next_token_id,
    owners,                 \* tokenId -> holder
    balances,               \* holder -> number of tokens
    token_revenue_share,    \* tokenId -> share in basis points
    token_project,
    token_funding_amount,
    project_total_revenue,
    token_claimed_revenue,
    token_claimable_revenue,
    project_holders,        \* projectId -> tokenIds
    transfer_restrictions,  \* tokenId -> restricted
    min_claim_amount,
    claim_fee_bps,
    nft_locked,
    nft_balance,            \* ether held by the RevenueShareNFT contract
    oracle_owner,           \* OracleManager.owner
    oracles,                \* oracle address -> OracleConfig
    source_oracles,         \* source -> oracle addresses, in registration order
    oracle_count,
    revenue_reports,        \* projectId -> (source -> RevenueData)
    oracle_submissions,     \* projectId -> (source -> (oracle -> amount))
    min_oracles_required,
    consensus_threshold,
    oracle_accuracy,
    disputed_reports,       \* report ids marked by dispute_revenue_report
    dist_owner,             \* RevenueDistributor.owner
    project_revenue,        \* projectId -> RevenueInfo
    project_revenue_sources, \* projectId -> (source -> amount)
    revenue_sources,        \* source -> RevenueSource
    oracle_addresses,       \* source -> oracle address
    supported_sources,      \* source names, in the order they were added
    total_distributed,      \* projectId -> amount
    distribution_history,   \* projectId -> DistributionEvents
    creator_claimed_revenue, \* projectId -> (address -> amount)
    dist_platform_fee_bps,
    min_distribution_amount,
    distribution_frequency,
    creator_share_default,
    revenue_disputes,       \* projectId -> challenged sources
    total_revenue_processed,
    dist_paused,
    dist_locked,
    dist_balance,           \* ether held by the RevenueDistributor contract
    plat_owner,             \* AfroCreatePlatform.owner
    creators,               \* address -> CreatorProfile
    projects,               \* projectId -> ProjectInfo
    creator_count,
    project_count,
    subdomain_registry,     \* ENS subdomain -> address
    creator_ens_names,
    plat_platform_fee_bps,
    min_project_funding,
    max_project_duration,
    plat_paused,
    admins,
    plat_total_funding_raised,  \* AfroCreatePlatform.total_funding_raised
    successful_projects,
    active_creators,
    creator_projects,       \* address -> projectIds
    approved_categories,
    category_projects,      \* category -> projectIds
    consensus_amounts,      \* argument of a calculate_consensus call
    consensus_result,       \* what that call returned
    now,                    \* block::timestamp()
    last                    \* the most recent call and its result

fundingVars == <<owner, platform_contract, platform_fee_bps, min_contribution,
                 refund_period, project_funding, funding_models,
                 backer_contributions, project_backers, project_escrow,
                 platform_treasury, project_milestones, milestone_releases,
                 milestone_completion, authorized_callers,
                 total_projects_funded, total_amount_raised, locked, balance>>

nftVars == <<nft_owner, minters, revenue_distributor, next_token_id, owners,
             balances, token_revenue_share, token_project, token_funding_amount,
             project_total_revenue, token_claimed_revenue,
             token_claimable_revenue, project_holders, transfer_restrictions,
             min_claim_amount, claim_fee_bps, nft_locked, nft_balance>>

oracleVars == <<oracle_owner, oracles, source_oracles, oracle_count,
                revenue_reports, oracle_submissions, min_oracles_required,
                consensus_threshold, oracle_accuracy, disputed_reports>>

pureVars == <<consensus_amounts, consensus_result>>

distVars == <<dist_owner, project_revenue, project_revenue_sources,
              revenue_sources, oracle_addresses, supported_sources,
              total_distributed, distribution_history,
              creator_claimed_revenue, dist_platform_fee_bps,
              min_distribution_amount, distribution_frequency,
              creator_share_default, revenue_disputes,
              total_revenue_processed, dist_paused, dist_locked, dist_balance>>

platVars == <<plat_owner, creators, projects, creator_count, project_count,
              subdomain_registry, creator_ens_names, plat_platform_fee_bps,
              min_project_funding, max_project_duration, plat_paused, admins,
              plat_total_funding_raised, successful_projects,
              active_creators, creator_projects, approved_categories,
              category_projects>>

\* the state outside ProjectFunding and RevenueShareNFT
extVars == <<oracleVars, pureVars, distVars, platVars>>

vars == <<fundingVars, nftVars, extVars, now, last>>

----------------------------------------------------------------------------
(* Call results *)

NoPaid == [a \in Addresses |-> 0]

NoError == [kind |-> "", msg |-> ""]
Error(kind, msg) == [kind |-> kind, msg |-> msg]

\* A call made back into the contract by the recipient of a transfer, while
\* the transfer is in progress: the operation called, the value of the
\* reentrancy flag it finds and its result
NoNested ==
    [op |-> "none", project |-> 0, locked |-> FALSE, ok |-> FALSE,
     kind |-> "", msg |-> ""]

Nested(op, p, flag, err) ==
    [op |-> op, project |-> p, locked |-> flag, ok |-> err = NoError,
     kind |-> err.kind, msg |-> err.msg]

Ok(op, p, sender, value, paid, events) ==
    [op |-> op, ok |-> TRUE, kind |-> "", msg |-> "", project |-> p,
     sender |-> sender, value |-> value, paid |-> paid, events |-> events,
     nested |-> NoNested]

Fail(op, p, value, kind, msg) ==
    [op |-> op, ok |-> FALSE, kind |-> kind, msg |-> msg, project |-> p,
     sender |-> Zero, value |-> value, paid |-> NoPaid, events |-> <<>>,
     nested |-> NoNested]


\* Sum of f over the set S
RECURSIVE SumOver(_, _)
SumOver(f, S) ==
    IF S = {} THEN 0
    ELSE LET x == CHOOSE y \in S : TRUE IN f[x] + SumOver(f, S \ {x})

----------------------------------------------------------------------------
(* ProjectFunding: helpers *)

EmptyFunding ==
    [target |-> 0, raised |-> 0, deadline |-> 0, status |-> 0,
     creator |-> Zero, backer_count |-> 0, funding_model |-> 0]

get_funding_model(p) ==
    CASE funding_models[p] = 0 -> "AllOrNothing"
      [] funding_models[p] = 1 -> "FlexibleFunding"
      [] funding_models[p] = 2 -> "MilestoneBased"
      [] OTHER -> "AllOrNothing"

require_owner(caller) == caller = owner

\* mutant: the guard is left raised
unlock_guard_skipped == TRUE

\* project_funding.rs:435-437, and the same function of the registry
\* (revenue_share_nft.rs:433-435) and of the distributor
\* (revenue_distributor.rs:484-486): the value of the flag after the call
unlock_guard == FALSE

require_authorized_caller(caller) ==
    \/ caller = platform_contract
    \/ caller = owner
    \/ caller \in authorized_callers

\* mutant: the share is taken against the target instead of raised
calculate_revenue_share_target(info, contribution) ==
    IF info.raised = 0 THEN 0
    ELSE (contribution * BPS_DENOMINATOR) \div info.target

calculate_revenue_share(info, contribution) ==
    IF info.raised = 0 THEN 0
    ELSE (contribution * BPS_DENOMINATOR) \div info.raised

EmptyOracleConfig ==
    [oracle_address |-> Zero, is_active |-> FALSE, reliability_score |-> 0,
     last_update |-> 0, data_source |-> "", update_frequency |-> 0]

EmptyRevenueData ==
    [project_id |-> 0, source |-> "", amount |-> 0, timestamp |-> 0,
     oracle_address |-> Zero, verification_score |-> 0, is_disputed |-> FALSE]

EmptyRevenueInfo ==
    [total_revenue |-> 0, last_distribution_timestamp |-> 0,
     revenue_sources |-> <<>>, oracle_verified |-> FALSE,
     creator_share_bps |-> 0, community_share_bps |-> 0]

EmptyRevenueSource ==
    [source_name |-> "", oracle_address |-> Zero, is_active |-> FALSE,
     verification_required |-> FALSE, last_update_timestamp |-> 0,
     total_revenue_reported |-> 0]

EmptyCreatorProfile ==
    [creator_address |-> Zero, ens_name |-> <<>>, cultural_background |-> "",
     reputation_score |-> 0, projects_created |-> 0,
     total_funding_raised |-> 0, is_verified |-> FALSE,
     registration_timestamp |-> 0]

EmptyProjectInfo ==
    [project_id |-> 0, creator |-> Zero, title |-> "", description |-> "",
     cultural_category |-> "", funding_target |-> 0, funding_raised |-> 0,
     deadline |-> 0, status |-> 0, validation_status |-> 0,
     validation_score |-> 0, metadata_uri |-> ""]

\* the storage of the contracts after deployment
InitContracts ==
    /\ owner = Zero
    /\ platform_contract = Zero
    /\ platform_fee_bps = 0
    /\ min_contribution = 0
    /\ refund_period = 0
    /\ project_funding = [p \in Projects |-> EmptyFunding]
    /\ funding_models = [p \in Projects |-> 0]
    /\ backer_contributions = [p \in Projects |-> [a \in Addresses |-> 0]]
    /\ project_backers = [p \in Projects |-> <<>>]
    /\ project_escrow = [p \in Projects |-> 0]
    /\ platform_treasury = 0
    /\ project_milestones = [p \in Projects |-> <<>>]
    /\ milestone_releases = [p \in Projects |-> {}]
    /\ milestone_completion = [p \in Projects |-> {}]
    /\ authorized_callers = {}
    /\ total_projects_funded = 0
    /\ total_amount_raised = 0
    /\ locked = FALSE
    /\ balance = 0
    /\ nft_owner = Zero
    /\ minters = {}
    /\ revenue_distributor = Zero
    /\ next_token_id = 0
    /\ owners = [t \in TokenIds |-> Zero]
    /\ balances = [a \in Addresses |-> 0]
    /\ token_revenue_share = [t \in TokenIds |-> 0]
    /\ token_project = [t \in TokenIds |-> 0]
    /\ token_funding_amount = [t \in TokenIds |-> 0]
    /\ project_total_revenue = [p \in Projects |-> 0]
    /\ token_claimed_revenue = [t \in TokenIds |-> 0]
    /\ token_claimable_revenue = [t \in TokenIds |-> 0]
    /\ project_holders = [p \in Projects |-> <<>>]
    /\ transfer_restrictions = [t \in TokenIds |-> FALSE]
    /\ min_claim_amount = 0
    /\ claim_fee_bps = 0
    /\ nft_locked = FALSE
    /\ nft_balance = 0
    /\ oracle_owner = Zero
    /\ oracles = [o \in OracleAddrs |-> EmptyOracleConfig]
    /\ source_oracles = [s \in Sources |-> <<>>]
    /\ oracle_count = 0
    /\ revenue_reports = [p \in Projects |-> [s \in Sources |-> EmptyRevenueData]]
    /\ oracle_submissions =
            [p \in Projects |-> [s \in Sources |-> [o \in OracleAddrs |-> 0]]]
    /\ min_oracles_required = 0
    /\ consensus_threshold = 0
    /\ oracle_accuracy = [o \in OracleAddrs |-> 0]
    /\ disputed_reports = {}
    /\ dist_owner = Zero
    /\ project_revenue = [p \in Projects |-> EmptyRevenueInfo]
    /\ project_revenue_sources = [p \in Projects |-> [s \in AllSources |-> 0]]
    /\ revenue_sources = [s \in AllSources |-> EmptyRevenueSource]
    /\ oracle_addresses = [s \in AllSources |-> Zero]
    /\ supported_sources = <<>>
    /\ total_distributed = [p \in Projects |-> 0]
    /\ distribution_history = [p \in Projects |-> <<>>]
    /\ creator_claimed_revenue = [p \in Projects |-> [a \in Addresses |-> 0]]
    /\ dist_platform_fee_bps = 0
    /\ min_distribution_amount = 0
    /\ distribution_frequency = 0
    /\ creator_share_default = 0
    /\ revenue_disputes = [p \in Projects |-> <<>>]
    /\ total_revenue_processed = 0
    /\ dist_paused = FALSE
    /\ dist_locked = FALSE
    /\ dist_balance = 0
    /\ plat_owner = Zero
    /\ creators = [a \in Addresses |-> EmptyCreatorProfile]
    /\ projects = [p \in PlatformProjectIds |-> EmptyProjectInfo]
    /\ creator_count = 0
    /\ project_count = 0
    /\ subdomain_registry = [n \in EnsNames |-> Zero]
    /\ creator_ens_names = [a \in Addresses |-> <<>>]
    /\ plat_platform_fee_bps = 0
    /\ min_project_funding = 0
    /\ max_project_duration = 0
    /\ plat_paused = FALSE
    /\ admins = {}
    /\ plat_total_funding_raised = 0
    /\ successful_projects = 0
    /\ active_creators = 0
    /\ creator_projects = [a \in Addresses |-> <<>>]
    /\ approved_categories = <<>>
    /\ category_projects = [c \in Categories |-> <<>>]
    /\ now = 0
    /\ last = Ok("deploy", 0, Zero, 0, NoPaid, <<>>)

Init ==
    /\ InitContracts
    /\ consensus_amounts = <<>>
    /\ consensus_result = <<0, 0>>

initialize(caller, fee) ==
    IF owner # Zero
    THEN /\ last' = Fail("initialize", 0, 0, "InvalidInput", "Already initialized")
         /\ UNCHANGED <<fundingVars, nftVars, now, extVars>>
    ELSE /\ owner' = caller
         /\ platform_contract' = PlatformAddr
         /\ platform_fee_bps' = fee
         /\ min_contribution' = MIN_CONTRIBUTION
         /\ refund_period' = REFUND_PERIOD
         /\ last' = Ok("initialize", 0, caller, 0, NoPaid, <<>>)
         /\ UNCHANGED <<project_funding, funding_models, backer_contributions,
                        project_backers, project_escrow, platform_treasury,
                        project_milestones, milestone_releases,
                        milestone_completion, authorized_callers,
                        total_projects_funded, total_amount_raised, locked,
                        balance, nftVars, now, extVars>>

----------------------------------------------------------------------------
(* ProjectFunding: setup_project_funding *)

setup_project_funding(caller, p, target, deadline, creator, model, milestones) ==
    LET err ==
          IF ~require_authorized_caller(caller)
            THEN Error("Unauthorized", "Not authorized caller")
          ELSE IF project_funding[p].target # 0
            THEN Error("InvalidInput", "Project already configured")
          ELSE NoError
    IN
    IF err # NoError
    THEN /\ last' = Fail("setup_project_funding", p, 0, err.kind, err.msg)
         /\ UNCHANGED <<fundingVars, nftVars, now, extVars>>
    ELSE /\ project_funding' = [project_funding EXCEPT ![p] =
                [target |-> target, raised |-> 0, deadline |-> deadline,
                 status |-> 0, creator |-> creator, backer_count |-> 0,
                 funding_model |-> model]]
         /\ funding_models' = [funding_models EXCEPT ![p] = model]
         /\ project_milestones' =
                IF model = 2
                THEN [project_milestones EXCEPT ![p] = @ \o milestones]
                ELSE project_milestones
         /\ last' = Ok("setup_project_funding", p, caller, 0, NoPaid, <<>>)
         /\ UNCHANGED <<owner, platform_contract, platform_fee_bps,
                        min_contribution, refund_period, backer_contributions,
                        project_backers, project_escrow, platform_treasury,
                        milestone_releases, milestone_completion,
                        authorized_callers, total_projects_funded,
                        total_amount_raised, locked, balance, nftVars, now, extVars>>

----------------------------------------------------------------------------
(* ProjectFunding: fund_project *)

\* mutant: the stored contribution is overwritten instead of accumulated
NewContribution_overwrite(previous_contribution, contribution) == contribution

\* project_funding.rs:107, the amount stored for the backer
NewContribution(previous_contribution, contribution) ==
    previous_contribution + contribution

\* mutant: strict comparison
TargetReached_strict(info) == info.raised > info.target

\* project_funding.rs:121, the test that decides the transition to Successful
TargetReached(info) == info.raised >= info.target

\* the event logged by ProjectFunding::mint_revenue_nft; info is the funding
\* record already stored by fund_project
mint_revenue_nft(p, backer, funding_amount, info) ==
    [name |-> "RevenueNFTMinted",
     token_id |-> p * 10000 + funding_amount,
     project_id |-> p,
     recipient |-> backer,
     funding_amount |-> funding_amount,
     revenue_share_bps |-> calculate_revenue_share(info, funding_amount)]

\* mutant: a contribution made exactly at the deadline is rejected
FundError_strictDeadline(p, contribution) ==
    LET info == project_funding[p] IN
    IF locked
      THEN Error("InvalidInput", "Reentrant call")
    ELSE IF ~(contribution >= min_contribution)
      THEN Error("InsufficientFunds", "Contribution too small")
    ELSE IF ~(info.target > 0)
      THEN Error("InvalidInput", "Project not found")
    ELSE IF ~(info.status = 0)
      THEN Error("InvalidInput", "Project not active")
    ELSE IF ~(now < info.deadline)
      THEN Error("InvalidInput", "Funding deadline passed")
    ELSE NoError

FundError(p, contribution) ==
    LET info == project_funding[p] IN
    IF locked
      THEN Error("InvalidInput", "Reentrant call")
    ELSE IF ~(contribution >= min_contribution)
      THEN Error("InsufficientFunds", "Contribution too small")
    ELSE IF ~(info.target > 0)
      THEN Error("InvalidInput", "Project not found")
    ELSE IF ~(info.status = 0)
      THEN Error("InvalidInput", "Project not active")
    ELSE IF ~(now <= info.deadline)
      THEN Error("InvalidInput", "Funding deadline passed")
    ELSE NoError

fund_project(p, backer, contribution) ==
    LET info == project_funding[p]
        err == FundError(p, contribution)
        previous_contribution == backer_contributions[p][backer]
        first == previous_contribution = 0
        raisedInfo == [info EXCEPT !.raised = @ + contribution,
                                   !.backer_count = IF first THEN @ + 1 ELSE @]
        reached == TargetReached(raisedInfo)
        updated_funding == [raisedInfo EXCEPT !.status = IF reached THEN 1 ELSE @]
    IN
    IF err # NoError
    THEN /\ last' = Fail("fund_project", p, contribution, err.kind, err.msg)
         /\ UNCHANGED <<fundingVars, nftVars, now, extVars>>
    ELSE /\ backer_contributions' =
                [backer_contributions EXCEPT ![p][backer] =
                    NewContribution(previous_contribution, contribution)]
         /\ project_backers' =
                IF first THEN [project_backers EXCEPT ![p] = Append(@, backer)]
                ELSE project_backers
         /\ project_escrow' = [project_escrow EXCEPT ![p] = @ + contribution]
         /\ total_projects_funded' =
                IF reached THEN total_projects_funded + 1 ELSE total_projects_funded
         /\ project_funding' = [project_funding EXCEPT ![p] = updated_funding]
         /\ total_amount_raised' = total_amount_raised + contribution
         /\ balance' = balance + contribution
         /\ locked' = unlock_guard
         /\ last' = Ok("fund_project", p, backer, contribution, NoPaid,
                       << mint_revenue_nft(p, backer, contribution, updated_funding),
                          [name |-> "ProjectFunded", project_id |-> p,
                           backer |-> backer, amount |-> contribution,
                           total_raised |-> updated_funding.raised] >>)
         /\ UNCHANGED <<owner, platform_contract, platform_fee_bps,
                        min_contribution, refund_period, funding_models,
                        platform_treasury, project_milestones,
                        milestone_releases, milestone_completion,
                        authorized_callers, nftVars, now, extVars>>

----------------------------------------------------------------------------
(* External value transfer: call::transfer_eth fails when the contract holds
   less than the amount or when the recipient rejects the payment *)

TransferError(to, amount, held, rejecting) ==
    IF amount > held THEN "insufficient balance"
    ELSE IF to \in rejecting THEN "recipient rejected"
    ELSE ""

----------------------------------------------------------------------------
(* ProjectFunding: process_refunds *)

\* mutant: the shortfall test raised < target is dropped
RefundEligible_noShortfall(info, model, current_time) ==
    CASE model = "AllOrNothing" ->
            \/ info.status = 2
            \/ current_time > info.deadline
      [] model = "MilestoneBased" -> info.status = 3
      [] OTHER -> FALSE

\* mutant: Flexible projects refund like AllOrNothing ones
RefundEligible_flexible(info, model, current_time) ==
    CASE model = "MilestoneBased" -> info.status = 3
      [] OTHER ->
            \/ info.status = 2
            \/ (current_time > info.deadline /\ info.raised < info.target)

\* project_funding.rs:241-250
RefundEligible(info, model, current_time) ==
    CASE model = "AllOrNothing" ->
            \/ info.status = 2
            \/ (current_time > info.deadline /\ info.raised < info.target)
      [] model = "MilestoneBased" -> info.status = 3
      [] OTHER -> FALSE

\* mutant: the full contribution is refunded whatever the escrow holds
RefundAmount_full(contribution, escrow_amount, total_raised) == contribution

\* project_funding.rs:268-272
RefundAmount(contribution, escrow_amount, total_raised) ==
    IF total_raised > 0
    THEN (contribution * escrow_amount) \div total_raised
    ELSE contribution

\* mutant: the refund is taken as a share of the target
TotalRaised_target(info) == info.target

\* project_funding.rs:261, the denominator of the proportional refund
TotalRaised(info) == info.raised

\* mutant: the contribution stays on record after the refund
RefundedContribution_kept(contribution) == contribution

\* project_funding.rs:278-279: the contribution on record after the refund
RefundedContribution(contribution) == 0

\* project_funding.rs:263-283; st is the state threaded through the loop
RECURSIVE RefundLoop(_, _, _, _, _, _)
RefundLoop(backers, i, escrow_amount, total_raised, rejecting, st) ==
    IF i > Len(backers) \/ st.failed # "" THEN st
    ELSE
      LET backer == backers[i]
          contribution == st.contrib[backer]
          refund_amount == RefundAmount(contribution, escrow_amount, total_raised)
          terr == IF refund_amount > 0
                  THEN TransferError(backer, refund_amount, st.held, rejecting)
                  ELSE ""
      IN
      IF contribution > 0
      THEN IF terr # ""
           THEN [st EXCEPT !.failed = terr]
           ELSE RefundLoop(backers, i + 1, escrow_amount, total_raised, rejecting,
                    [contrib |-> [st.contrib EXCEPT ![backer] =
                                    RefundedContribution(contribution)],
                     paid |-> [st.paid EXCEPT ![backer] = @ + refund_amount],
                     held |-> st.held - refund_amount,
                     failed |-> ""])
      ELSE RefundLoop(backers, i + 1, escrow_amount, total_raised, rejecting, st)

RefundError(p) ==
    LET info == project_funding[p] IN
    IF locked
      THEN Error("InvalidInput", "Reentrant call")
    ELSE IF ~(info.target > 0)
      THEN Error("InvalidInput", "Project not found")
    ELSE IF ~RefundEligible(info, get_funding_model(p), now)
      THEN Error("InvalidInput", "Refunds not available")
    ELSE IF ~(now <= info.deadline + refund_period)
      THEN Error("InvalidInput", "Refund period expired")
    ELSE NoError

process_refunds(caller, p, rejecting) ==
    LET info == project_funding[p]
        err == RefundError(p)
        st == RefundLoop(project_backers[p], 1, project_escrow[p], TotalRaised(info),
                         rejecting,
                         [contrib |-> backer_contributions[p], paid |-> NoPaid,
                          held |-> balance, failed |-> ""])
    IN
    IF err # NoError
    THEN /\ last' = Fail("process_refunds", p, 0, err.kind, err.msg)
         /\ UNCHANGED <<fundingVars, nftVars, now, extVars>>
    ELSE IF st.failed # ""
    THEN /\ last' = Fail("process_refunds", p, 0, "TransferFailed", st.failed)
         /\ UNCHANGED <<fundingVars, nftVars, now, extVars>>
    ELSE /\ backer_contributions' = [backer_contributions EXCEPT ![p] = st.contrib]
         /\ balance' = st.held
         /\ project_escrow' = [project_escrow EXCEPT ![p] = 0]
         /\ project_funding' = [project_funding EXCEPT ![p].status = 2]
         /\ locked' = unlock_guard
         /\ last' = Ok("process_refunds", p, caller, 0, st.paid, <<>>)
         /\ UNCHANGED <<owner, platform_contract, platform_fee_bps,
                        min_contribution, refund_period, funding_models,
                        project_backers, platform_treasury, project_milestones,
                        milestone_releases, milestone_completion,
                        authorized_callers, total_projects_funded,
                        total_amount_raised, nftVars, now, extVars>>

----------------------------------------------------------------------------
(* ProjectFunding: finalize_successful_project *)

\* mutant: the fee is divided by 1000 instead of 10000
PlatformFee_perMille(escrow_amount, fee_bps) ==
    (escrow_amount * fee_bps) \div 1000

\* project_funding.rs:310
PlatformFee(escrow_amount, fee_bps) ==
    (escrow_amount * fee_bps) \div BPS_DENOMINATOR

FinalizeError(caller, p) ==
    LET info == project_funding[p] IN
    IF ~require_authorized_caller(caller)
      THEN Error("Unauthorized", "Not authorized caller")
    ELSE IF ~(info.target > 0)
      THEN Error("InvalidInput", "Project not found")
    ELSE IF ~(info.status = 1)
      THEN Error("InvalidInput", "Project not successful")
    ELSE NoError

finalize_successful_project(caller, p, rejecting) ==
    LET info == project_funding[p]
        err == FinalizeError(caller, p)
        escrow_amount == project_escrow[p]
        platform_fee == PlatformFee(escrow_amount, platform_fee_bps)
        \* escrow_amount - platform_fee on U256: a fee above the escrow wraps
        \* to a value near 2^256, which no balance covers
        wraps == platform_fee > escrow_amount
        creator_amount == escrow_amount - platform_fee
        terr == IF wraps THEN "insufficient balance"
                ELSE IF creator_amount > 0
                THEN TransferError(info.creator, creator_amount, balance, rejecting)
                ELSE ""
    IN
    IF err # NoError
    THEN /\ last' = Fail("finalize_successful_project", p, 0, err.kind, err.msg)
         /\ UNCHANGED <<fundingVars, nftVars, now, extVars>>
    ELSE IF get_funding_model(p) = "MilestoneBased"
    THEN /\ last' = Ok("finalize_successful_project", p, caller, 0, NoPaid, <<>>)
         /\ UNCHANGED <<fundingVars, nftVars, now, extVars>>
    ELSE IF terr # ""
    THEN /\ last' = Fail("finalize_successful_project", p, 0, "TransferFailed", terr)
         /\ UNCHANGED <<fundingVars, nftVars, now, extVars>>
    ELSE /\ balance' = balance - creator_amount
         /\ platform_treasury' = platform_treasury + platform_fee
         /\ project_escrow' = [project_escrow EXCEPT ![p] = 0]
         /\ last' = Ok("finalize_successful_project", p, caller, 0,
                       [NoPaid EXCEPT ![info.creator] = creator_amount], <<>>)
         /\ UNCHANGED <<owner, platform_contract, platform_fee_bps,
                        min_contribution, refund_period, project_funding,
                        funding_models, backer_contributions, project_backers,
                        project_milestones, milestone_releases,
                        milestone_completion, authorized_callers,
                        total_projects_funded, total_amount_raised, locked, nftVars, now, extVars>>

----------------------------------------------------------------------------
(* ProjectFunding: release_milestone_funds *)

\* mutant: the completion mark is not required
ReleaseError_noCompletion(caller, p, milestone_id) ==
    LET info == project_funding[p] IN
    IF ~require_authorized_caller(caller)
      THEN Error("Unauthorized", "Not authorized caller")
    ELSE IF ~(info.target > 0)
      THEN Error("InvalidInput", "Project not found")
    ELSE IF ~(get_funding_model(p) = "MilestoneBased")
      THEN Error("InvalidInput", "Not milestone-based project")
    ELSE IF milestone_id \in milestone_releases[p]
      THEN Error("InvalidInput", "Funds already released for this milestone")
    ELSE IF ~(milestone_id < Len(project_milestones[p]))
      THEN Error("InvalidInput", "Invalid milestone ID")
    ELSE NoError

ReleaseError(caller, p, milestone_id) ==
    LET info == project_funding[p] IN
    IF ~require_authorized_caller(caller)
      THEN Error("Unauthorized", "Not authorized caller")
    ELSE IF ~(info.target > 0)
      THEN Error("InvalidInput", "Project not found")
    ELSE IF ~(get_funding_model(p) = "MilestoneBased")
      THEN Error("InvalidInput", "Not milestone-based project")
    ELSE IF ~(milestone_id \in milestone_completion[p])
      THEN Error("InvalidInput", "Milestone not completed")
    ELSE IF milestone_id \in milestone_releases[p]
      THEN Error("InvalidInput", "Funds already released for this milestone")
    ELSE IF ~(milestone_id < Len(project_milestones[p]))
      THEN Error("InvalidInput", "Invalid milestone ID")
    ELSE NoError

release_milestone_funds(caller, p, milestone_id, rejecting) ==
    LET info == project_funding[p]
        err == ReleaseError(caller, p, milestone_id)
        \* milestone ids index the stored vector from 0
        release_amount == project_milestones[p][milestone_id + 1]
        terr == IF release_amount > 0
                THEN TransferError(info.creator, release_amount, balance, rejecting)
                ELSE ""
    IN
    IF err # NoError
    THEN /\ last' = Fail("release_milestone_funds", p, milestone_id, err.kind, err.msg)
         /\ UNCHANGED <<fundingVars, nftVars, now, extVars>>
    ELSE IF terr # ""
    THEN /\ last' = Fail("release_milestone_funds", p, milestone_id, "TransferFailed", terr)
         /\ UNCHANGED <<fundingVars, nftVars, now, extVars>>
    ELSE /\ balance' = balance - release_amount
         /\ milestone_releases' = [milestone_releases EXCEPT ![p] = @ \cup {milestone_id}]
         /\ last' = Ok("release_milestone_funds", p, caller, milestone_id,
                       [NoPaid EXCEPT ![info.creator] = release_amount],
                       << [name |-> "MilestoneCompleted", project_id |-> p,
                           milestone_id |-> milestone_id,
                           amount_released |-> release_amount] >>)
         /\ UNCHANGED <<owner, platform_contract, platform_fee_bps,
                        min_contribution, refund_period, project_funding,
                        funding_models, backer_contributions, project_backers,
                        project_escrow, platform_treasury, project_milestones,
                        milestone_completion, authorized_callers,
                        total_projects_funded, total_amount_raised, locked, nftVars, now, extVars>>

----------------------------------------------------------------------------
(* ProjectFunding: admin functions *)

\* project_funding.rs:391 builds the "Fee too high" error and drops it (no `?`),
\* so the bound does not stop the call
set_platform_fee(sender, new_fee_bps) ==
    IF ~require_owner(sender)
    THEN /\ last' = Fail("set_platform_fee", 0, new_fee_bps, "Unauthorized", "Only owner")
         /\ UNCHANGED <<fundingVars, nftVars, now, extVars>>
    ELSE /\ platform_fee_bps' = new_fee_bps
         /\ last' = Ok("set_platform_fee", 0, sender, new_fee_bps, NoPaid, <<>>)
         /\ UNCHANGED <<owner, platform_contract, min_contribution,
                        refund_period, project_funding, funding_models,
                        backer_contributions, project_backers, project_escrow,
                        platform_treasury, project_milestones,
                        milestone_releases, milestone_completion,
                        authorized_callers, total_projects_funded,
                        total_amount_raised, locked, balance, nftVars, now, extVars>>

emergency_withdraw(sender, p, rejecting) ==
    LET escrow_amount == project_escrow[p]
        terr == IF escrow_amount > 0
                THEN TransferError(owner, escrow_amount, balance, rejecting)
                ELSE ""
    IN
    IF ~require_owner(sender)
    THEN /\ last' = Fail("emergency_withdraw", p, 0, "Unauthorized", "Only owner")
         /\ UNCHANGED <<fundingVars, nftVars, now, extVars>>
    ELSE IF terr # ""
    THEN /\ last' = Fail("emergency_withdraw", p, 0, "TransferFailed", terr)
         /\ UNCHANGED <<fundingVars, nftVars, now, extVars>>
    ELSE /\ balance' = balance - escrow_amount
         /\ project_escrow' = [project_escrow EXCEPT ![p] = 0]
         /\ last' = Ok("emergency_withdraw", p, sender, 0,
                       [NoPaid EXCEPT ![owner] = escrow_amount],
                       IF escrow_amount > 0
                       THEN << [name |-> "EmergencyWithdrawal", recipient |-> owner,
                                amount |-> escrow_amount] >>
                       ELSE <<>>)
         /\ UNCHANGED <<owner, platform_contract, platform_fee_bps,
                        min_contribution, refund_period, project_funding,
                        funding_models, backer_contributions, project_backers,
                        platform_treasury, project_milestones,
                        milestone_releases, milestone_completion,
                        authorized_callers, total_projects_funded,
                        total_amount_raised, locked, nftVars, now, extVars>>

----------------------------------------------------------------------------
(* ProjectFunding: calls made back into the contract during a transfer.
   call::transfer_eth hands control to the recipient, which may call the
   contract again before the outer call has written its remaining state.  The
   recipient below makes one such call and accepts the payment whatever the
   result of its call. *)

\* finalize_successful_project(p) by caller, in which the creator, while it is
\* being paid (project_funding.rs:313), calls finalize_successful_project(q).
\* finalize_successful_project never calls nonreentrant_guard, so the nested
\* call runs against the storage as the outer call found it, with the
\* contract balance already lowered by the outer payment.
finalize_successful_project_reentered(caller, p, q) ==
    LET info == project_funding[p]
        escrow_amount == project_escrow[p]
        platform_fee == PlatformFee(escrow_amount, platform_fee_bps)
        creator_amount == escrow_amount - platform_fee
        held == balance - creator_amount
        inner_info == project_funding[q]
        inner_escrow == project_escrow[q]
        inner_fee == PlatformFee(inner_escrow, platform_fee_bps)
        inner_amount == inner_escrow - inner_fee
        inner_pays == get_funding_model(q) # "MilestoneBased"
        inner_terr == IF ~inner_pays THEN ""
                      ELSE IF inner_fee > inner_escrow THEN "insufficient balance"
                      ELSE IF inner_amount > 0
                      THEN TransferError(inner_info.creator, inner_amount, held, {})
                      ELSE ""
        inner_err == IF FinalizeError(info.creator, q) # NoError
                       THEN FinalizeError(info.creator, q)
                     ELSE IF inner_terr # ""
                       THEN Error("TransferFailed", inner_terr)
                     ELSE NoError
        inner_done == inner_err = NoError /\ inner_pays
        paid_outer == [NoPaid EXCEPT ![info.creator] = creator_amount]
    IN
    \* the outer call reaches the transfer and the transfer is made
    /\ FinalizeError(caller, p) = NoError
    /\ get_funding_model(p) # "MilestoneBased"
    /\ platform_fee <= escrow_amount
    /\ creator_amount > 0
    /\ TransferError(info.creator, creator_amount, balance, {}) = ""
    /\ balance' = IF inner_done THEN held - inner_amount ELSE held
    /\ platform_treasury' =
            (IF inner_done THEN platform_treasury + inner_fee ELSE platform_treasury)
                + platform_fee
    /\ project_escrow' =
            [x \in Projects |->
                IF x = p THEN 0
                ELSE IF x = q /\ inner_done THEN 0
                ELSE project_escrow[x]]
    /\ last' = [Ok("finalize_successful_project", p, caller, 0,
                    IF inner_done
                    THEN [paid_outer EXCEPT ![inner_info.creator] = @ + inner_amount]
                    ELSE paid_outer,
                    <<>>)
                EXCEPT !.nested = Nested("finalize_successful_project", q,
                                         locked, inner_err)]
    /\ UNCHANGED <<owner, platform_contract, platform_fee_bps,
                   min_contribution, refund_period, project_funding,
                   funding_models, backer_contributions, project_backers,
                   project_milestones, milestone_releases,
                   milestone_completion, authorized_callers,
                   total_projects_funded, total_amount_raised, locked, nftVars, now, extVars>>

\* process_refunds(p) by caller, in which the first backer refunded, while it
\* is being paid (project_funding.rs:275), calls process_refunds(q).  The
\* outer call has set locked (project_funding.rs:232, 431), so the nested call
\* stops at its own nonreentrant_guard.
process_refunds_reentered(caller, p, q) ==
    LET info == project_funding[p]
        st == RefundLoop(project_backers[p], 1, project_escrow[p], TotalRaised(info),
                         {},
                         [contrib |-> backer_contributions[p], paid |-> NoPaid,
                          held |-> balance, failed |-> ""])
        flag == TRUE
        inner_err == IF flag THEN Error("InvalidInput", "Reentrant call")
                     ELSE RefundError(q)
    IN
    \* the outer call makes at least one transfer and completes
    /\ RefundError(p) = NoError
    /\ st.failed = ""
    /\ st.held < balance
    /\ backer_contributions' = [backer_contributions EXCEPT ![p] = st.contrib]
    /\ balance' = st.held
    /\ project_escrow' = [project_escrow EXCEPT ![p] = 0]
    /\ project_funding' = [project_funding EXCEPT ![p].status = 2]
    /\ locked' = unlock_guard
    /\ last' = [Ok("process_refunds", p, caller, 0, st.paid, <<>>)
                EXCEPT !.nested = Nested("process_refunds", q, flag, inner_err)]
    /\ UNCHANGED <<owner, platform_contract, platform_fee_bps,
                   min_contribution, refund_period, funding_models,
                   project_backers, platform_treasury, project_milestones,
                   milestone_releases, milestone_completion,
                   authorized_callers, total_projects_funded,
                   total_amount_raised, nftVars, now, extVars>>

----------------------------------------------------------------------------
(* RevenueShareNFT *)

nft_initialize(caller) ==
    IF nft_owner # Zero
    THEN /\ last' = Fail("nft.initialize", 0, 0, "InvalidInput", "Already initialized")
         /\ UNCHANGED <<fundingVars, nftVars, now, extVars>>
    ELSE /\ nft_owner' = caller
         /\ next_token_id' = 1
         /\ min_claim_amount' = MIN_CLAIM_AMOUNT
         /\ claim_fee_bps' = CLAIM_FEE_BPS
         /\ minters' = {FundingAddr, caller}
         /\ last' = Ok("nft.initialize", 0, caller, 0, NoPaid, <<>>)
         /\ UNCHANGED <<fundingVars, revenue_distributor, owners, balances,
                        token_revenue_share, token_project, token_funding_amount,
                        project_total_revenue, token_claimed_revenue,
                        token_claimable_revenue, project_holders,
                        transfer_restrictions, nft_locked, nft_balance, now, extVars>>

require_minter(caller) == caller \in minters \/ caller = nft_owner

require_revenue_distributor(caller) ==
    caller = revenue_distributor \/ caller = nft_owner

MintError(caller, to, funding_amount, revenue_share_bps) ==
    IF ~require_minter(caller)
      THEN Error("Unauthorized", "Not authorized minter")
    ELSE IF to = Zero
      THEN Error("InvalidInput", "Cannot mint to zero address")
    ELSE IF ~(funding_amount > 0)
      THEN Error("InvalidInput", "Funding amount must be positive")
    ELSE IF ~(revenue_share_bps <= 10000)
      THEN Error("InvalidInput", "Invalid revenue share")
    ELSE NoError

nft_mint_revenue_nft(caller, to, project_id, funding_amount, revenue_share_bps) ==
    LET err == MintError(caller, to, funding_amount, revenue_share_bps)
        token_id == next_token_id
    IN
    IF err # NoError
    THEN /\ last' = Fail("nft.mint_revenue_nft", project_id, funding_amount, err.kind, err.msg)
         /\ UNCHANGED <<fundingVars, nftVars, now, extVars>>
    ELSE /\ token_id <= MaxTokens
         /\ owners' = [owners EXCEPT ![token_id] = to]
         /\ balances' = [balances EXCEPT ![to] = @ + 1]
         /\ token_project' = [token_project EXCEPT ![token_id] = project_id]
         /\ token_funding_amount' = [token_funding_amount EXCEPT ![token_id] = funding_amount]
         /\ token_revenue_share' = [token_revenue_share EXCEPT ![token_id] = revenue_share_bps]
         /\ project_holders' = [project_holders EXCEPT ![project_id] = Append(@, token_id)]
         /\ transfer_restrictions' = [transfer_restrictions EXCEPT ![token_id] = TRUE]
         /\ next_token_id' = token_id + 1
         /\ last' = Ok("nft.mint_revenue_nft", project_id, caller, funding_amount, NoPaid,
                       << [name |-> "Transfer", from |-> Zero, to |-> to,
                           token_id |-> token_id],
                          [name |-> "RevenueNFTMinted", token_id |-> token_id,
                           project_id |-> project_id, recipient |-> to,
                           funding_amount |-> funding_amount,
                           revenue_share_bps |-> revenue_share_bps] >>)
         /\ UNCHANGED <<fundingVars, nft_owner, minters, revenue_distributor,
                        project_total_revenue, token_claimed_revenue,
                        token_claimable_revenue, min_claim_amount,
                        claim_fee_bps, nft_locked, nft_balance, now, extVars>>

\* mutant: the amount already claimed is not deducted
ClaimableRevenue_gross(total_project_revenue, revenue_share, already_claimed) ==
    (total_project_revenue * revenue_share) \div 10000

\* revenue_share_nft.rs:176-189, for an existing token, against the given totals
ClaimableRevenue(total_project_revenue, revenue_share, already_claimed) ==
    LET total_entitled == (total_project_revenue * revenue_share) \div 10000
    IN IF total_entitled > already_claimed
       THEN total_entitled - already_claimed
       ELSE 0

calculate_claimable_revenue(token_id) ==
    ClaimableRevenue(project_total_revenue[token_project[token_id]],
                     token_revenue_share[token_id],
                     token_claimed_revenue[token_id])

\* mutant: the amount booked is the amount paid out, net of the claim fee
NewClaimed_net(already_claimed, claimable, fee) ==
    already_claimed + (claimable - fee)

\* revenue_share_nft.rs:206-207, the claimed total stored by claim_revenue
NewClaimed(already_claimed, claimable, fee) == already_claimed + claimable

ClaimError(caller, token_id) ==
    IF nft_locked
      THEN Error("InvalidInput", "Reentrant call")
    ELSE IF ~(caller = owners[token_id])
      THEN Error("Unauthorized", "Not token owner")
    ELSE IF owners[token_id] = Zero
      THEN Error("InvalidInput", "Token does not exist")
    ELSE IF ~(calculate_claimable_revenue(token_id) >= min_claim_amount)
      THEN Error("InvalidInput", "Below minimum claim amount")
    ELSE NoError

claim_revenue(caller, token_id, rejecting) ==
    LET err == ClaimError(caller, token_id)
        holder == owners[token_id]
        claimable == calculate_claimable_revenue(token_id)
        fee == (claimable * claim_fee_bps) \div 10000
        net_amount == claimable - fee
        terr == IF net_amount > 0
                THEN TransferError(holder, net_amount, nft_balance, rejecting)
                ELSE ""
    IN
    IF err # NoError
    THEN /\ last' = Fail("nft.claim_revenue", token_id, 0, err.kind, err.msg)
         /\ UNCHANGED <<fundingVars, nftVars, now, extVars>>
    ELSE IF terr # ""
    THEN /\ last' = Fail("nft.claim_revenue", token_id, 0, "TransferFailed", terr)
         /\ UNCHANGED <<fundingVars, nftVars, now, extVars>>
    ELSE /\ token_claimed_revenue' =
                [token_claimed_revenue EXCEPT ![token_id] = NewClaimed(@, claimable, fee)]
         /\ nft_balance' = nft_balance - net_amount
         /\ token_claimable_revenue' = [token_claimable_revenue EXCEPT ![token_id] = 0]
         /\ nft_locked' = unlock_guard
         /\ last' = Ok("nft.claim_revenue", token_id, caller, net_amount,
                       [NoPaid EXCEPT ![holder] = net_amount],
                       << [name |-> "RevenueClaimed", token_id |-> token_id,
                           holder |-> holder, amount |-> net_amount] >>)
         /\ UNCHANGED <<fundingVars, nft_owner, minters, revenue_distributor,
                        next_token_id, owners, balances, token_revenue_share,
                        token_project, token_funding_amount,
                        project_total_revenue, project_holders,
                        transfer_restrictions, min_claim_amount, claim_fee_bps,
                        now, extVars>>

\* revenue_share_nft.rs:242-248: refresh the claimable cache of every holder
RECURSIVE RefreshClaimable(_, _, _, _)
RefreshClaimable(holders, i, revenue, cache) ==
    IF i > Len(holders) THEN cache
    ELSE RefreshClaimable(holders, i + 1, revenue,
            [cache EXCEPT ![holders[i]] =
                ClaimableRevenue(revenue, token_revenue_share[holders[i]],
                                 token_claimed_revenue[holders[i]])])

batch_distribute_revenue(caller, project_id, total_amount) ==
    LET err == IF ~require_revenue_distributor(caller)
                 THEN Error("Unauthorized", "Not authorized distributor")
               ELSE IF ~(total_amount > 0)
                 THEN Error("InvalidInput", "Amount must be positive")
               ELSE NoError
        revenue == project_total_revenue[project_id] + total_amount
    IN
    IF err # NoError
    THEN /\ last' = Fail("nft.batch_distribute_revenue", project_id, total_amount, err.kind, err.msg)
         /\ UNCHANGED <<fundingVars, nftVars, now, extVars>>
    ELSE /\ revenue <= MaxRevenue
         /\ project_total_revenue' = [project_total_revenue EXCEPT ![project_id] = revenue]
         /\ token_claimable_revenue' =
                RefreshClaimable(project_holders[project_id], 1, revenue,
                                 token_claimable_revenue)
         /\ last' = Ok("nft.batch_distribute_revenue", project_id, caller, total_amount, NoPaid,
                       << [name |-> "RevenueDistributed", project_id |-> project_id,
                           total_amount |-> total_amount, creator_share |-> 0,
                           community_share |-> total_amount, platform_fee |-> 0] >>)
         /\ UNCHANGED <<fundingVars, nft_owner, minters, revenue_distributor,
                        next_token_id, owners, balances, token_revenue_share,
                        token_project, token_funding_amount,
                        token_claimed_revenue, project_holders,
                        transfer_restrictions, min_claim_amount, claim_fee_bps,
                        nft_locked, nft_balance, now, extVars>>

remove_transfer_restriction(caller, token_id) ==
    LET err == IF owners[token_id] = Zero
                 THEN Error("InvalidInput", "Token does not exist")
               ELSE IF ~(caller = owners[token_id] \/ caller = nft_owner
                         \/ caller \in minters)
                 THEN Error("Unauthorized", "Not authorized")
               ELSE NoError
    IN
    IF err # NoError
    THEN /\ last' = Fail("nft.remove_transfer_restriction", token_id, 0, err.kind, err.msg)
         /\ UNCHANGED <<fundingVars, nftVars, now, extVars>>
    ELSE /\ transfer_restrictions' = [transfer_restrictions EXCEPT ![token_id] = FALSE]
         /\ last' = Ok("nft.remove_transfer_restriction", token_id, caller, 0, NoPaid, <<>>)
         /\ UNCHANGED <<fundingVars, nft_owner, minters, revenue_distributor,
                        next_token_id, owners, balances, token_revenue_share,
                        token_project, token_funding_amount,
                        project_total_revenue, token_claimed_revenue,
                        token_claimable_revenue, project_holders,
                        min_claim_amount, claim_fee_bps, nft_locked,
                        nft_balance, now, extVars>>

set_min_claim_amount(caller, amount) ==
    IF ~(caller = nft_owner)
    THEN /\ last' = Fail("nft.set_min_claim_amount", 0, amount, "Unauthorized", "Only owner")
         /\ UNCHANGED <<fundingVars, nftVars, now, extVars>>
    ELSE /\ min_claim_amount' = amount
         /\ last' = Ok("nft.set_min_claim_amount", 0, caller, amount, NoPaid, <<>>)
         /\ UNCHANGED <<fundingVars, nft_owner, minters, revenue_distributor,
                        next_token_id, owners, balances, token_revenue_share,
                        token_project, token_funding_amount,
                        project_total_revenue, token_claimed_revenue,
                        token_claimable_revenue, project_holders,
                        transfer_restrictions, claim_fee_bps, nft_locked,
                        nft_balance, now, extVars>>

\* token_approvals and operator_approvals are left empty: approve is not
\* among the calls offered
is_approved_or_owner(spender, token_id) == spender = owners[token_id]

TransferFromError(caller, from, to, token_id) ==
    IF owners[token_id] = Zero
      THEN Error("InvalidInput", "Token does not exist")
    ELSE IF ~is_approved_or_owner(caller, token_id)
      THEN Error("InvalidInput", "Not authorized")
    ELSE IF transfer_restrictions[token_id]
      THEN Error("InvalidInput", "Transfer restricted")
    ELSE IF to = Zero
      THEN Error("InvalidInput", "Transfer to zero address")
    ELSE IF ~(owners[token_id] = from)
      THEN Error("InvalidInput", "Transfer from incorrect owner")
    ELSE NoError

transfer_from(caller, from, to, token_id) ==
    LET err == TransferFromError(caller, from, to, token_id) IN
    IF err # NoError
    THEN /\ last' = Fail("nft.transfer_from", token_id, 0, err.kind, err.msg)
         /\ UNCHANGED <<fundingVars, nftVars, now, extVars>>
    ELSE /\ balances' = [balances EXCEPT ![from] = @ - 1, ![to] = @ + 1]
         /\ owners' = [owners EXCEPT ![token_id] = to]
         /\ last' = Ok("nft.transfer_from", token_id, caller, 0, NoPaid,
                       << [name |-> "Transfer", from |-> from, to |-> to,
                           token_id |-> token_id] >>)
         /\ UNCHANGED <<fundingVars, nft_owner, minters, revenue_distributor,
                        next_token_id, token_revenue_share, token_project,
                        token_funding_amount, project_total_revenue,
                        token_claimed_revenue, token_claimable_revenue,
                        project_holders, transfer_restrictions,
                        min_claim_amount, claim_fee_bps, nft_locked,
                        nft_balance, now, extVars>>

\* Ether reaching the RevenueShareNFT contract from outside
nft_receive(amount) ==
    /\ nft_balance + amount <= MaxRevenue
    /\ nft_balance' = nft_balance + amount
    /\ last' = Ok("nft.receive", 0, Zero, amount, NoPaid, <<>>)
    /\ UNCHANGED <<fundingVars, nft_owner, minters, revenue_distributor,
                   next_token_id, owners, balances, token_revenue_share,
                   token_project, token_funding_amount, project_total_revenue,
                   token_claimed_revenue, token_claimable_revenue,
                   project_holders, transfer_restrictions, min_claim_amount,
                   claim_fee_bps, nft_locked, now, extVars>>

----------------------------------------------------------------------------
(* OracleManager.  Amounts are converted to u64 by process_consensus; the
   amounts offered here are far below 2^63, so the u64 sums of
   calculate_consensus do not overflow. *)

nonOracle == <<fundingVars, nftVars, pureVars, distVars, platVars, now>>

oracle_initialize(caller) ==
    IF oracle_owner # Zero
    THEN /\ last' = Fail("oracle.initialize", 0, 0, "InvalidInput", "Already initialized")
         /\ UNCHANGED <<nonOracle, oracleVars>>
    ELSE /\ oracle_owner' = caller
         /\ min_oracles_required' = MIN_ORACLES_REQUIRED
         /\ consensus_threshold' = CONSENSUS_THRESHOLD
         /\ last' = Ok("oracle.initialize", 0, caller, 0, NoPaid, <<>>)
         /\ UNCHANGED <<nonOracle, disputed_reports, oracles, source_oracles, oracle_count,
                        revenue_reports, oracle_submissions, oracle_accuracy>>

register_oracle(caller, oracle_address, data_source, update_frequency) ==
    LET err == IF ~(caller = oracle_owner)
                 THEN Error("Unauthorized", "Only owner")
               ELSE IF oracle_address = Zero
                 THEN Error("InvalidInput", "Invalid oracle address")
               ELSE IF data_source = ""
                 THEN Error("InvalidInput", "Data source required")
               ELSE NoError
    IN
    IF err # NoError
    THEN /\ last' = Fail("oracle.register_oracle", 0, 0, err.kind, err.msg)
         /\ UNCHANGED <<nonOracle, oracleVars>>
    ELSE /\ oracle_count < MaxOracles
         /\ oracles' = [oracles EXCEPT ![oracle_address] =
                [oracle_address |-> oracle_address, is_active |-> TRUE,
                 reliability_score |-> 100, last_update |-> 0,
                 data_source |-> data_source,
                 update_frequency |-> update_frequency]]
         /\ source_oracles' = [source_oracles EXCEPT ![data_source] =
                                    Append(@, oracle_address)]
         /\ oracle_count' = oracle_count + 1
         /\ last' = Ok("oracle.register_oracle", 0, caller, 0, NoPaid, <<>>)
         /\ UNCHANGED <<nonOracle, disputed_reports, oracle_owner, revenue_reports,
                        oracle_submissions, min_oracles_required,
                        consensus_threshold, oracle_accuracy>>

\* oracle_manager.rs:312-316: a placeholder that reports three submissions
count_submissions(submissions) == 3

\* Vec::sort on the amounts
RECURSIVE InsertSorted(_, _)
InsertSorted(x, sorted) ==
    IF sorted = <<>> THEN <<x>>
    ELSE IF x <= Head(sorted) THEN <<x>> \o sorted
    ELSE <<Head(sorted)>> \o InsertSorted(x, Tail(sorted))

RECURSIVE SortAmounts(_)
SortAmounts(amounts) ==
    IF amounts = <<>> THEN <<>>
    ELSE InsertSorted(Head(amounts), SortAmounts(Tail(amounts)))

\* mutant: the 5% tolerance of update_oracle_accuracy
ConsensusTolerance_5pct(median) == median \div 20

\* oracle_manager.rs:347
ConsensusTolerance(median) == median \div 10

\* u64::saturating_sub
saturating_sub(a, b) == IF a > b THEN a - b ELSE 0

\* oracle_manager.rs:331-358; the result is <<median, agreement_percentage>>
calculate_consensus(amounts) ==
    IF amounts = <<>> THEN <<0, 0>>
    ELSE
      LET sorted == SortAmounts(amounts)
          len == Len(sorted)
          \* sorted[len / 2 - 1] and sorted[len / 2] of the source count from 0
          median == IF len % 2 = 0
                    THEN (sorted[len \div 2] + sorted[len \div 2 + 1]) \div 2
                    ELSE sorted[len \div 2 + 1]
          tolerance == ConsensusTolerance(median)
          agreeing == Cardinality({i \in 1 .. Len(amounts) :
                          /\ amounts[i] >= saturating_sub(median, tolerance)
                          /\ amounts[i] <= median + tolerance})
      IN <<median, (agreeing * 100) \div Len(amounts)>>

\* oracle_manager.rs:360-379
RECURSIVE update_oracle_accuracy(_, _, _, _, _)
update_oracle_accuracy(accuracy, reporters, amounts, consensus, i) ==
    IF i > Len(reporters) THEN accuracy
    ELSE
      LET tolerance == consensus \div 20
          amount == amounts[i]
          is_accurate == /\ amount >= saturating_sub(consensus, tolerance)
                         /\ amount <= consensus + tolerance
          current_accuracy == accuracy[reporters[i]]
          new_accuracy == IF is_accurate
                          THEN (IF current_accuracy + 1 < 100
                                THEN current_accuracy + 1 ELSE 100)
                          ELSE saturating_sub(current_accuracy, 2)
      IN update_oracle_accuracy([accuracy EXCEPT ![reporters[i]] = new_accuracy],
                                reporters, amounts, consensus, i + 1)

\* oracle_manager.rs:152-201, against the submissions given: the reports and
\* accuracy scores process_consensus leaves in storage
ConsensusOutcome(project_id, source, submissions) ==
    LET subs == submissions[project_id][source]
        reporters == SelectSeq(source_oracles[source], LAMBDA o : subs[o] > 0)
        amounts == [i \in 1 .. Len(reporters) |-> subs[reporters[i]]]
        result == calculate_consensus(amounts)
        unchanged == [reports |-> revenue_reports, accuracy |-> oracle_accuracy]
    IN
    IF Len(amounts) < min_oracles_required THEN unchanged
    ELSE IF result[2] >= consensus_threshold
    THEN [reports |-> [revenue_reports EXCEPT ![project_id][source] =
                [project_id |-> project_id, source |-> source,
                 amount |-> result[1], timestamp |-> now,
                 oracle_address |-> Zero, verification_score |-> result[2],
                 is_disputed |-> FALSE]],
          accuracy |-> update_oracle_accuracy(oracle_accuracy, reporters,
                                              amounts, result[1], 1)]
    ELSE unchanged

SubmitError(oracle, source) ==
    LET oracle_config == oracles[oracle] IN
    IF oracle_config.oracle_address = Zero
      THEN Error("InvalidInput", "Oracle not registered")
    ELSE IF ~oracle_config.is_active
      THEN Error("InvalidInput", "Oracle not active")
    ELSE IF ~(oracle_config.data_source = source)
      THEN Error("InvalidInput", "Invalid data source for oracle")
    ELSE NoError

submit_revenue_data(oracle, project_id, source, amount, timestamp) ==
    LET err == SubmitError(oracle, source)
        stored == [oracle_submissions EXCEPT ![project_id][source][oracle] = amount]
        submission_count == count_submissions(stored[project_id][source])
        outcome == IF submission_count >= min_oracles_required
                   THEN ConsensusOutcome(project_id, source, stored)
                   ELSE [reports |-> revenue_reports, accuracy |-> oracle_accuracy]
    IN
    IF err # NoError
    THEN /\ last' = Fail("oracle.submit_revenue_data", project_id, amount, err.kind, err.msg)
         /\ UNCHANGED <<nonOracle, oracleVars>>
    ELSE /\ \A o \in OracleAddrs : outcome.accuracy[o] <= MaxAccuracy
         /\ oracle_submissions' = stored
         /\ revenue_reports' = outcome.reports
         /\ oracle_accuracy' = outcome.accuracy
         /\ last' = Ok("oracle.submit_revenue_data", project_id, oracle, amount, NoPaid, <<>>)
         /\ UNCHANGED <<nonOracle, disputed_reports, oracle_owner, oracles, source_oracles,
                        oracle_count, min_oracles_required, consensus_threshold>>

process_consensus(caller, project_id, source) ==
    LET outcome == ConsensusOutcome(project_id, source, oracle_submissions) IN
    /\ \A o \in OracleAddrs : outcome.accuracy[o] <= MaxAccuracy
    /\ revenue_reports' = outcome.reports
    /\ oracle_accuracy' = outcome.accuracy
    /\ last' = Ok("oracle.process_consensus", project_id, caller, 0, NoPaid, <<>>)
    /\ UNCHANGED <<nonOracle, disputed_reports, oracle_owner, oracles, source_oracles,
                   oracle_count, oracle_submissions, min_oracles_required,
                   consensus_threshold>>

update_consensus_parameters(caller, min_oracles, threshold) ==
    LET err == IF ~(caller = oracle_owner)
                 THEN Error("Unauthorized", "Only owner")
               ELSE IF ~(min_oracles >= 2)
                 THEN Error("InvalidInput", "Need at least 2 oracles")
               ELSE IF ~(threshold >= 51 /\ threshold <= 100)
                 THEN Error("InvalidInput", "Invalid threshold")
               ELSE NoError
    IN
    IF err # NoError
    THEN /\ last' = Fail("oracle.update_consensus_parameters", 0, min_oracles, err.kind, err.msg)
         /\ UNCHANGED <<nonOracle, oracleVars>>
    ELSE /\ min_oracles_required' = min_oracles
         /\ consensus_threshold' = threshold
         /\ last' = Ok("oracle.update_consensus_parameters", 0, caller, min_oracles, NoPaid, <<>>)
         /\ UNCHANGED <<nonOracle, disputed_reports, oracle_owner, oracles, source_oracles,
                        oracle_count, revenue_reports, oracle_submissions,
                        oracle_accuracy>>

\* oracle_manager.rs:222: source.len() of the source names modelled
SourceLen == [s \in Sources |-> 7]

dispute_revenue_report(disputer, project_id, source) ==
    LET revenue_data == revenue_reports[project_id][source]
        report_id == project_id * 1000 + SourceLen[source]
    IN
    IF ~(revenue_data.project_id # 0)
    THEN /\ last' = Fail("oracle.dispute_revenue_report", project_id, 0,
                         "InvalidInput", "Revenue report not found")
         /\ UNCHANGED <<nonOracle, oracleVars>>
    ELSE /\ revenue_reports' = [revenue_reports EXCEPT
                ![project_id][source] = [revenue_data EXCEPT !.is_disputed = TRUE]]
         /\ disputed_reports' = disputed_reports \cup {report_id}
         /\ last' = Ok("oracle.dispute_revenue_report", project_id, disputer, 0, NoPaid, <<>>)
         /\ UNCHANGED <<nonOracle, oracle_owner, oracles, source_oracles,
                        oracle_count, oracle_submissions, min_oracles_required,
                        consensus_threshold, oracle_accuracy>>

----------------------------------------------------------------------------
(* RevenueDistributor.  platform_contract, nft_contract, superfluid_host and
   dispute_resolution_period are written by initialize and read by no
   function; they and the Superfluid streams are left out. *)

nonDist == <<fundingVars, nftVars, oracleVars, pureVars, platVars, now>>

\* revenue_distributor.rs:511-522, the names that are offered to the calls
DefaultSources ==
    << <<"spotify", TRUE>>, <<"youtube", TRUE>>, <<"soundcloud", FALSE>> >>

\* no function of the contract writes authorized_reporters
authorized_reporters == {}

require_authorized_reporter(caller) ==
    caller \in authorized_reporters \/ caller = dist_owner

is_supported_source(source) ==
    \E i \in 1 .. Len(supported_sources) : supported_sources[i] = source

RECURSIVE initialize_revenue_sources(_, _)
initialize_revenue_sources(configs, i) ==
    IF i > Len(DefaultSources) THEN configs
    ELSE initialize_revenue_sources(
            [configs EXCEPT ![DefaultSources[i][1]] =
                [source_name |-> DefaultSources[i][1], oracle_address |-> Zero,
                 is_active |-> TRUE,
                 verification_required |-> DefaultSources[i][2],
                 last_update_timestamp |-> 0, total_revenue_reported |-> 0]],
            i + 1)

dist_initialize(caller) ==
    IF ~(dist_owner = Zero)
    THEN /\ last' = Fail("dist.initialize", 0, 0, "InvalidInput", "Already initialized")
         /\ UNCHANGED <<nonDist, distVars>>
    ELSE /\ dist_owner' = caller
         /\ dist_platform_fee_bps' = DIST_PLATFORM_FEE_BPS
         /\ min_distribution_amount' = MIN_DISTRIBUTION_AMOUNT
         /\ distribution_frequency' = DISTRIBUTION_FREQUENCY
         /\ creator_share_default' = CREATOR_SHARE_DEFAULT
         /\ supported_sources' = supported_sources \o
                [i \in 1 .. Len(DefaultSources) |-> DefaultSources[i][1]]
         /\ revenue_sources' = initialize_revenue_sources(revenue_sources, 1)
         /\ last' = Ok("dist.initialize", 0, caller, 0, NoPaid, <<>>)
         /\ UNCHANGED <<nonDist, project_revenue, project_revenue_sources,
                        oracle_addresses, total_distributed,
                        distribution_history, creator_claimed_revenue,
                        revenue_disputes, total_revenue_processed,
                        dist_paused, dist_locked, dist_balance>>

\* mutant: the oracle check is skipped
VerificationError_skipped(source, amount) == NoError

\* revenue_distributor.rs:150-154 with validate_revenue_with_oracle (197-212)
VerificationError(source, amount) ==
    LET source_config == revenue_sources[source]
        is_reasonable_amount == amount <= source_config.total_revenue_reported * 2
    IN
    IF ~source_config.verification_required THEN NoError
    ELSE IF ~(oracle_addresses[source] # Zero)
      THEN Error("InvalidInput", "Oracle not configured")
    ELSE IF ~(is_reasonable_amount /\ amount > 0)
      THEN Error("InvalidInput", "Oracle verification failed")
    ELSE NoError

AddRevenueError(caller, source, amount) ==
    IF dist_paused
      THEN Error("InvalidInput", "Contract is paused")
    ELSE IF ~require_authorized_reporter(caller)
      THEN Error("Unauthorized", "Not authorized reporter")
    ELSE IF ~(amount > 0)
      THEN Error("InvalidInput", "Amount must be positive")
    ELSE IF ~is_supported_source(source)
      THEN Error("InvalidInput", "Revenue source not supported")
    ELSE IF ~revenue_sources[source].is_active
      THEN Error("InvalidInput", "Revenue source inactive")
    ELSE VerificationError(source, amount)

\* mutant: the total is replaced by the amount
NewTotalRevenue_overwrite(total_revenue, amount) == amount

\* revenue_distributor.rs:171
NewTotalRevenue(total_revenue, amount) == total_revenue + amount

add_revenue_source(caller, project_id, source, amount) ==
    LET err == AddRevenueError(caller, source, amount)
        stored == project_revenue[project_id]
        revenue_info ==
            IF stored.total_revenue = 0
            THEN [total_revenue |-> 0, last_distribution_timestamp |-> 0,
                  revenue_sources |-> <<source>>,
                  oracle_verified |-> revenue_sources[source].verification_required,
                  creator_share_bps |-> creator_share_default,
                  community_share_bps |->
                        10000 - creator_share_default - dist_platform_fee_bps]
            ELSE stored
        listed == \E i \in 1 .. Len(revenue_info.revenue_sources) :
                        revenue_info.revenue_sources[i] = source
    IN
    IF err # NoError
    THEN /\ last' = Fail("dist.add_revenue_source", project_id, amount, err.kind, err.msg)
         /\ UNCHANGED <<nonDist, distVars>>
    ELSE /\ revenue_info.total_revenue + amount <= MaxDistRevenue
         /\ project_revenue' = [project_revenue EXCEPT ![project_id] =
                [revenue_info EXCEPT
                    !.total_revenue = NewTotalRevenue(revenue_info.total_revenue, amount),
                    !.revenue_sources = IF listed THEN @ ELSE Append(@, source)]]
         /\ project_revenue_sources' =
                [project_revenue_sources EXCEPT ![project_id][source] = @ + amount]
         /\ total_revenue_processed' = total_revenue_processed + amount
         /\ last' = Ok("dist.add_revenue_source", project_id, caller, amount, NoPaid,
                       << [name |-> "RevenueAdded", project_id |-> project_id,
                           source |-> source, amount |-> amount,
                           timestamp |-> now] >>)
         /\ UNCHANGED <<nonDist, dist_owner, revenue_sources, oracle_addresses,
                        supported_sources, total_distributed,
                        distribution_history, creator_claimed_revenue,
                        dist_platform_fee_bps, min_distribution_amount,
                        distribution_frequency, creator_share_default,
                        revenue_disputes, dist_paused, dist_locked, dist_balance>>

\* revenue_distributor.rs:236
DistPlatformFee(available, fee_bps) == (available * fee_bps) \div 10000

\* revenue_distributor.rs:237
CreatorShare(available, creator_share_bps) ==
    (available * creator_share_bps) \div 10000

\* mutant: the community share is computed from its own basis points
CommunityShare_fromBps(available, platform_fee, creator_share) ==
    (available * (10000 - CREATOR_SHARE_DEFAULT - DIST_PLATFORM_FEE_BPS)) \div 10000

\* revenue_distributor.rs:238
CommunityShare(available, platform_fee, creator_share) ==
    available - platform_fee - creator_share

\* mutant: the time since the last distribution is not checked
DistributeError_anyTime(project_id) ==
    LET revenue_info == project_revenue[project_id]
        available == revenue_info.total_revenue - total_distributed[project_id]
    IN
    IF dist_locked
      THEN Error("InvalidInput", "Reentrant call")
    ELSE IF dist_paused
      THEN Error("InvalidInput", "Contract is paused")
    ELSE IF ~(revenue_info.total_revenue > 0)
      THEN Error("InvalidInput", "No revenue to distribute")
    ELSE IF ~(available >= min_distribution_amount)
      THEN Error("InvalidInput", "Below minimum distribution amount")
    ELSE NoError

\* revenue_distributor.rs:215-233
DistributeError(project_id) ==
    LET revenue_info == project_revenue[project_id]
        available == revenue_info.total_revenue - total_distributed[project_id]
    IN
    IF dist_locked
      THEN Error("InvalidInput", "Reentrant call")
    ELSE IF dist_paused
      THEN Error("InvalidInput", "Contract is paused")
    ELSE IF ~(revenue_info.total_revenue > 0)
      THEN Error("InvalidInput", "No revenue to distribute")
    ELSE IF ~(available >= min_distribution_amount)
      THEN Error("InvalidInput", "Below minimum distribution amount")
    ELSE IF ~(now >= revenue_info.last_distribution_timestamp + distribution_frequency)
      THEN Error("InvalidInput", "Distribution frequency not met")
    ELSE NoError

\* revenue_distributor.rs:505-508, a placeholder
get_nft_holder_count(project_id) == 10

\* distribute_to_nft_holders (revenue_distributor.rs:499-503) returns Ok(())
\* without a call to the registry, so the registry's storage is unchanged
distribute_revenue(caller, project_id) ==
    LET err == DistributeError(project_id)
        revenue_info == project_revenue[project_id]
        available == revenue_info.total_revenue - total_distributed[project_id]
        platform_fee == DistPlatformFee(available, dist_platform_fee_bps)
        creator_share == CreatorShare(available, revenue_info.creator_share_bps)
        community_share == CommunityShare(available, platform_fee, creator_share)
    IN
    IF err # NoError
    THEN /\ last' = Fail("dist.distribute_revenue", project_id, 0, err.kind, err.msg)
         /\ UNCHANGED <<nonDist, distVars>>
    ELSE /\ total_distributed' = [total_distributed EXCEPT ![project_id] = @ + available]
         /\ distribution_history' = [distribution_history EXCEPT ![project_id] =
                Append(@, [timestamp |-> now, amount |-> available,
                           recipients_count |-> get_nft_holder_count(project_id),
                           source |-> "batch_distribution"])]
         /\ project_revenue' = [project_revenue EXCEPT ![project_id] =
                [revenue_info EXCEPT !.last_distribution_timestamp = now]]
         /\ last' = Ok("dist.distribute_revenue", project_id, caller, available, NoPaid,
                       << [name |-> "RevenueDistributed", project_id |-> project_id,
                           total_amount |-> available,
                           creator_share |-> creator_share,
                           community_share |-> community_share,
                           platform_fee |-> platform_fee] >>)
         /\ UNCHANGED <<nonDist, dist_owner, project_revenue_sources,
                        revenue_sources, oracle_addresses, supported_sources,
                        creator_claimed_revenue, dist_platform_fee_bps,
                        min_distribution_amount, distribution_frequency,
                        creator_share_default, revenue_disputes,
                        total_revenue_processed, dist_paused, dist_balance>>
         /\ dist_locked' = unlock_guard

\* revenue_distributor.rs:299-325.  creator_share - already_claimed is a U256
\* subtraction: below zero it wraps to a value near 2^256, which no balance
\* covers
claim_creator_revenue(creator, project_id, rejecting) ==
    LET revenue_info == project_revenue[project_id]
        available_revenue == revenue_info.total_revenue - total_distributed[project_id]
        creator_share == CreatorShare(available_revenue, revenue_info.creator_share_bps)
        already_claimed == creator_claimed_revenue[project_id][creator]
        wraps == already_claimed > creator_share
        claimable == creator_share - already_claimed
        err == IF dist_locked
                 THEN Error("InvalidInput", "Reentrant call")
               ELSE IF ~(revenue_info.total_revenue > 0)
                 THEN Error("InvalidInput", "No revenue available")
               ELSE IF ~(wraps \/ claimable > 0)
                 THEN Error("InvalidInput", "No claimable revenue")
               ELSE IF wraps
                 THEN Error("TransferFailed", "insufficient balance")
               ELSE IF TransferError(creator, claimable, dist_balance, rejecting) # ""
                 THEN Error("TransferFailed",
                            TransferError(creator, claimable, dist_balance, rejecting))
               ELSE NoError
    IN
    IF err # NoError
    THEN /\ last' = Fail("dist.claim_creator_revenue", project_id, 0, err.kind, err.msg)
         /\ UNCHANGED <<nonDist, distVars>>
    ELSE /\ dist_balance' = dist_balance - claimable
         /\ creator_claimed_revenue' = [creator_claimed_revenue EXCEPT
                ![project_id][creator] = already_claimed + claimable]
         /\ last' = Ok("dist.claim_creator_revenue", project_id, creator, claimable,
                       [NoPaid EXCEPT ![creator] = claimable], <<>>)
         /\ UNCHANGED <<nonDist, dist_owner, project_revenue,
                        project_revenue_sources, revenue_sources,
                        oracle_addresses, supported_sources, total_distributed,
                        distribution_history, dist_platform_fee_bps,
                        min_distribution_amount, distribution_frequency,
                        creator_share_default, revenue_disputes,
                        total_revenue_processed, dist_paused>>
         /\ dist_locked' = unlock_guard

challenge_revenue_report(caller, project_id, source, challenger) ==
    LET err == IF dist_paused
                 THEN Error("InvalidInput", "Contract is paused")
               ELSE IF ~is_supported_source(source)
                 THEN Error("InvalidInput", "Invalid revenue source")
               ELSE NoError
    IN
    IF err # NoError
    THEN /\ last' = Fail("dist.challenge_revenue_report", project_id, 0, err.kind, err.msg)
         /\ UNCHANGED <<nonDist, distVars>>
    ELSE /\ Len(revenue_disputes[project_id]) < MaxChallenges
         /\ revenue_disputes' = [revenue_disputes EXCEPT ![project_id] = Append(@, source)]
         /\ last' = Ok("dist.challenge_revenue_report", project_id, caller,
                       project_id + now, NoPaid, <<>>)
         /\ UNCHANGED <<nonDist, dist_owner, project_revenue,
                        project_revenue_sources, revenue_sources,
                        oracle_addresses, supported_sources, total_distributed,
                        distribution_history, creator_claimed_revenue,
                        dist_platform_fee_bps, min_distribution_amount,
                        distribution_frequency, creator_share_default,
                        total_revenue_processed, dist_paused, dist_locked,
                        dist_balance>>

add_revenue_source_config(caller, source_name, oracle_address, verification_required) ==
    IF ~(caller = dist_owner)
    THEN /\ last' = Fail("dist.add_revenue_source_config", 0, 0, "Unauthorized", "Only owner")
         /\ UNCHANGED <<nonDist, distVars>>
    ELSE /\ Len(supported_sources) < MaxSupportedSources
         /\ revenue_sources' = [revenue_sources EXCEPT ![source_name] =
                [source_name |-> source_name, oracle_address |-> oracle_address,
                 is_active |-> TRUE,
                 verification_required |-> verification_required,
                 last_update_timestamp |-> now, total_revenue_reported |-> 0]]
         /\ oracle_addresses' = [oracle_addresses EXCEPT ![source_name] = oracle_address]
         /\ supported_sources' = Append(supported_sources, source_name)
         /\ last' = Ok("dist.add_revenue_source_config", 0, caller, 0, NoPaid, <<>>)
         /\ UNCHANGED <<nonDist, dist_owner, project_revenue,
                        project_revenue_sources, total_distributed,
                        distribution_history, creator_claimed_revenue,
                        dist_platform_fee_bps, min_distribution_amount,
                        distribution_frequency, creator_share_default,
                        revenue_disputes, total_revenue_processed, dist_paused,
                        dist_locked, dist_balance>>

\* pause (paused = TRUE) and unpause (paused = FALSE),
\* revenue_distributor.rs:430-440
dist_set_paused(caller, op, value) ==
    IF ~(caller = dist_owner)
    THEN /\ last' = Fail(op, 0, 0, "Unauthorized", "Only owner")
         /\ UNCHANGED <<nonDist, distVars>>
    ELSE /\ dist_paused' = value
         /\ last' = Ok(op, 0, caller, 0, NoPaid, <<>>)
         /\ UNCHANGED <<nonDist, dist_owner, project_revenue,
                        project_revenue_sources, revenue_sources,
                        oracle_addresses, supported_sources, total_distributed,
                        distribution_history, creator_claimed_revenue,
                        dist_platform_fee_bps, min_distribution_amount,
                        distribution_frequency, creator_share_default,
                        revenue_disputes, total_revenue_processed, dist_locked,
                        dist_balance>>

dist_pause(caller) == dist_set_paused(caller, "dist.pause", TRUE)

dist_unpause(caller) == dist_set_paused(caller, "dist.unpause", FALSE)

dist_set_platform_fee(caller, new_fee_bps) ==
    LET err == IF ~(caller = dist_owner)
                 THEN Error("Unauthorized", "Only owner")
               ELSE IF ~(new_fee_bps <= MAX_PLATFORM_FEE_BPS)
                 THEN Error("InvalidInput", "Fee too high")
               ELSE NoError
    IN
    IF err # NoError
    THEN /\ last' = Fail("dist.set_platform_fee", 0, new_fee_bps, err.kind, err.msg)
         /\ UNCHANGED <<nonDist, distVars>>
    ELSE /\ dist_platform_fee_bps' = new_fee_bps
         /\ last' = Ok("dist.set_platform_fee", 0, caller, new_fee_bps, NoPaid, <<>>)
         /\ UNCHANGED <<nonDist, dist_owner, project_revenue,
                        project_revenue_sources, revenue_sources,
                        oracle_addresses, supported_sources, total_distributed,
                        distribution_history, creator_claimed_revenue,
                        min_distribution_amount, distribution_frequency,
                        creator_share_default, revenue_disputes,
                        total_revenue_processed, dist_paused, dist_locked,
                        dist_balance>>

\* Ether reaching the RevenueDistributor contract from outside
dist_receive(amount) ==
    /\ dist_balance + amount <= MaxDistRevenue
    /\ dist_balance' = dist_balance + amount
    /\ last' = Ok("dist.receive", 0, Zero, amount, NoPaid, <<>>)
    /\ UNCHANGED <<nonDist, dist_owner, project_revenue,
                   project_revenue_sources, revenue_sources, oracle_addresses,
                   supported_sources, total_distributed, distribution_history,
                   creator_claimed_revenue, dist_platform_fee_bps,
                   min_distribution_amount, distribution_frequency,
                   creator_share_default, revenue_disputes,
                   total_revenue_processed, dist_paused, dist_locked>>

----------------------------------------------------------------------------
(* AfroCreatePlatform.  ens_registry is written by initialize and read by no
   function; it is left out. *)

nonPlat == <<fundingVars, nftVars, oracleVars, pureVars, distVars, now>>

\* afrocreate_platform.rs:77-84
ApprovedCategoryList ==
    <<"Music", "Visual Arts", "Film & Video", "Literature",
      "Traditional Crafts", "Dance & Performance", "Digital Media",
      "Fashion & Design">>

\* afrocreate_platform.rs:67 requires `!self.owner.get().is_zero()`: the call
\* is refused while the owner is the zero address
plat_initialize(caller, min_funding, max_duration) ==
    IF ~(~(plat_owner = Zero))
    THEN /\ last' = Fail("platform.initialize", 0, 0, "InvalidInput", "Already initialized")
         /\ UNCHANGED <<nonPlat, platVars>>
    ELSE /\ plat_owner' = caller
         /\ plat_platform_fee_bps' = PLATFORM_FEE_BPS
         /\ min_project_funding' = min_funding
         /\ max_project_duration' = max_duration
         /\ approved_categories' = approved_categories \o ApprovedCategoryList
         /\ last' = Ok("platform.initialize", 0, caller, 0, NoPaid, <<>>)
         /\ UNCHANGED <<nonPlat, creators, projects, creator_count,
                        project_count, subdomain_registry, creator_ens_names,
                        plat_paused, admins, active_creators, creator_projects,
                        category_projects,
                        plat_total_funding_raised, successful_projects>>

\* afrocreate_platform.rs:410-420
validate_ens_name(name) ==
    IF ~(Len(name) >= 3)
      THEN Error("InvalidInput", "ENS name too short")
    ELSE IF ~(Len(name) <= 63)
      THEN Error("InvalidInput", "ENS name too long")
    ELSE IF ~(\A i \in 1 .. Len(name) : name[i] \in Alphanumeric \/ name[i] = "-")
      THEN Error("InvalidInput", "Invalid ENS name characters")
    ELSE IF name[1] = "-"
      THEN Error("InvalidInput", "ENS name cannot start with dash")
    ELSE IF name[Len(name)] = "-"
      THEN Error("InvalidInput", "ENS name cannot end with dash")
    ELSE NoError

\* afrocreate_platform.rs:214-217
validate_ens_ownership(subdomain, claimer) ==
    ~(subdomain = <<>>) /\ Len(subdomain) >= 3 /\ ~(claimer = Zero)

RegisterError(creator, ens_subdomain) ==
    IF plat_paused
      THEN Error("InvalidInput", "Contract is paused")
    ELSE IF validate_ens_name(ens_subdomain) # NoError
      THEN validate_ens_name(ens_subdomain)
    ELSE IF ~(creators[creator].creator_address = Zero)
      THEN Error("InvalidInput", "Creator already registered")
    ELSE IF ~validate_ens_ownership(ens_subdomain, creator)
      THEN Error("InvalidInput", "ENS ownership validation failed")
    ELSE NoError

register_creator(creator, ens_subdomain, cultural_background) ==
    LET err == RegisterError(creator, ens_subdomain)
        creator_id == creator_count + 1
    IN
    IF err # NoError
    THEN /\ last' = Fail("platform.register_creator", 0, 0, err.kind, err.msg)
         /\ UNCHANGED <<nonPlat, platVars>>
    ELSE /\ creators' = [creators EXCEPT ![creator] =
                [creator_address |-> creator, ens_name |-> ens_subdomain,
                 cultural_background |-> cultural_background,
                 reputation_score |-> 100, projects_created |-> 0,
                 total_funding_raised |-> 0, is_verified |-> FALSE,
                 registration_timestamp |-> now]]
         /\ subdomain_registry' = [subdomain_registry EXCEPT ![ens_subdomain] = creator]
         /\ creator_ens_names' = [creator_ens_names EXCEPT ![creator] = ens_subdomain]
         /\ creator_count' = creator_id
         /\ active_creators' = active_creators + 1
         /\ last' = Ok("platform.register_creator", 0, creator, creator_id, NoPaid,
                       << [name |-> "CreatorRegistered", creator |-> creator,
                           ens_name |-> ens_subdomain,
                           cultural_background |-> cultural_background,
                           timestamp |-> now] >>)
         /\ UNCHANGED <<nonPlat, plat_owner, projects, project_count,
                        plat_platform_fee_bps, min_project_funding,
                        max_project_duration, plat_paused, admins,
                        creator_projects, approved_categories,
                        category_projects,
                        plat_total_funding_raised, successful_projects>>

is_approved_category(category) ==
    \E i \in 1 .. Len(approved_categories) : approved_categories[i] = category

CreateProjectError(creator, cultural_category, funding_target, duration_days) ==
    IF plat_paused
      THEN Error("InvalidInput", "Contract is paused")
    ELSE IF ~(~(creators[creator].creator_address = Zero))
      THEN Error("InvalidInput", "Creator not registered")
    ELSE IF ~(funding_target >= min_project_funding)
      THEN Error("InvalidInput", "Funding target too low")
    ELSE IF ~(duration_days <= max_project_duration)
      THEN Error("InvalidInput", "Project duration too long")
    ELSE IF ~is_approved_category(cultural_category)
      THEN Error("InvalidInput", "Cultural category not approved")
    ELSE NoError

create_project(creator, title, cultural_category, funding_target, duration_days) ==
    LET err == CreateProjectError(creator, cultural_category, funding_target, duration_days)
        project_id == project_count + 1
        deadline == now + duration_days * 86400
    IN
    IF err # NoError
    THEN /\ last' = Fail("platform.create_project", 0, funding_target, err.kind, err.msg)
         /\ UNCHANGED <<nonPlat, platVars>>
    ELSE /\ project_count < MaxPlatformProjects
         /\ projects' = [projects EXCEPT ![project_id] =
                [project_id |-> project_id, creator |-> creator, title |-> title,
                 description |-> "", cultural_category |-> cultural_category,
                 funding_target |-> funding_target, funding_raised |-> 0,
                 deadline |-> deadline, status |-> 0, validation_status |-> 0,
                 validation_score |-> 0, metadata_uri |-> ""]]
         /\ project_count' = project_id
         /\ creators' = [creators EXCEPT ![creator].projects_created = @ + 1]
         /\ creator_projects' = [creator_projects EXCEPT ![creator] = Append(@, project_id)]
         /\ category_projects' = [category_projects EXCEPT
                ![cultural_category] = Append(@, project_id)]
         /\ last' = Ok("platform.create_project", project_id, creator, funding_target,
                       NoPaid,
                       << [name |-> "ProjectCreated", project_id |-> project_id,
                           creator |-> creator, title |-> title,
                           cultural_category |-> cultural_category,
                           funding_target |-> funding_target,
                           deadline |-> deadline] >>)
         /\ UNCHANGED <<nonPlat, plat_owner, creator_count, subdomain_registry,
                        creator_ens_names, plat_platform_fee_bps,
                        min_project_funding, max_project_duration, plat_paused,
                        admins, active_creators, approved_categories,
                        plat_total_funding_raised, successful_projects>>

\* afrocreate_platform.rs:314 builds the "Fee too high" error and drops it
\* (no `?`), so the bound does not stop the call
plat_set_platform_fee(caller, new_fee_bps) ==
    IF ~(caller = plat_owner)
    THEN /\ last' = Fail("platform.set_platform_fee", 0, new_fee_bps,
                         "Unauthorized", "Only owner")
         /\ UNCHANGED <<nonPlat, platVars>>
    ELSE /\ plat_platform_fee_bps' = new_fee_bps
         /\ last' = Ok("platform.set_platform_fee", 0, caller, new_fee_bps, NoPaid,
                       << [name |-> "PlatformFeeUpdated",
                           old_fee_bps |-> plat_platform_fee_bps,
                           new_fee_bps |-> new_fee_bps] >>)
         /\ UNCHANGED <<nonPlat, plat_owner, creators, projects, creator_count,
                        project_count, subdomain_registry, creator_ens_names,
                        min_project_funding, max_project_duration, plat_paused,
                        admins, active_creators, creator_projects,
                        approved_categories, category_projects,
                        plat_total_funding_raised, successful_projects>>

\* pause (paused = TRUE, event PlatformPaused) and unpause (paused = FALSE,
\* event PlatformUnpaused), afrocreate_platform.rs:339-359
plat_set_paused(caller, op, value, event) ==
    IF ~(caller = plat_owner)
    THEN /\ last' = Fail(op, 0, 0, "Unauthorized", "Only owner")
         /\ UNCHANGED <<nonPlat, platVars>>
    ELSE /\ plat_paused' = value
         /\ last' = Ok(op, 0, caller, 0, NoPaid,
                       << [name |-> event, timestamp |-> now] >>)
         /\ UNCHANGED <<nonPlat, plat_owner, creators, projects, creator_count,
                        project_count, subdomain_registry, creator_ens_names,
                        plat_platform_fee_bps, min_project_funding,
                        max_project_duration, admins, active_creators,
                        creator_projects, approved_categories,
                        category_projects,
                        plat_total_funding_raised, successful_projects>>

plat_pause(caller) == plat_set_paused(caller, "platform.pause", TRUE, "PlatformPaused")

plat_unpause(caller) ==
    plat_set_paused(caller, "platform.unpause", FALSE, "PlatformUnpaused")

\* afrocreate_platform.rs:400-406
plat_require_authorized(caller) == caller = plat_owner \/ caller \in admins

UpdateFundingError(caller, project_id) ==
    IF ~plat_require_authorized(caller)
      THEN Error("Unauthorized", "Not authorized")
    ELSE IF ~(project_id \in PlatformProjectIds /\ projects[project_id].project_id # 0)
      THEN Error("InvalidInput", "Project not found")
    ELSE NoError

\* afrocreate_platform.rs:271-272: the status written by an update
FundedStatus(project, amount_raised) ==
    IF amount_raised >= project.funding_target THEN 1 ELSE project.status

\* afrocreate_platform.rs:259-285
update_project_funding(caller, project_id, amount_raised) ==
    LET err == UpdateFundingError(caller, project_id) IN
    IF err # NoError
    THEN /\ last' = Fail("platform.update_project_funding", project_id,
                         amount_raised, err.kind, err.msg)
         /\ UNCHANGED <<nonPlat, platVars>>
    ELSE LET project == projects[project_id]
             reached == amount_raised >= project.funding_target
         IN
         /\ projects' = [projects EXCEPT ![project_id] =
                [project EXCEPT !.funding_raised = amount_raised,
                                !.status = FundedStatus(project, amount_raised)]]
         /\ successful_projects' =
                IF reached THEN successful_projects + 1 ELSE successful_projects
         /\ creators' =
                IF reached
                THEN [creators EXCEPT ![project.creator].total_funding_raised =
                                            @ + amount_raised]
                ELSE creators
         /\ plat_total_funding_raised' = plat_total_funding_raised + amount_raised
         /\ last' = Ok("platform.update_project_funding", project_id, caller,
                       amount_raised, NoPaid, <<>>)
         /\ UNCHANGED <<nonPlat, plat_owner, creator_count, project_count,
                        subdomain_registry, creator_ens_names,
                        plat_platform_fee_bps, min_project_funding,
                        max_project_duration, plat_paused, admins,
                        active_creators, creator_projects,
                        approved_categories, category_projects>>

\* afrocreate_platform.rs:287-309
set_project_validation(caller, project_id, score, approved) ==
    LET err == UpdateFundingError(caller, project_id) IN
    IF err # NoError
    THEN /\ last' = Fail("platform.set_project_validation", project_id, score,
                         err.kind, err.msg)
         /\ UNCHANGED <<nonPlat, platVars>>
    ELSE /\ projects' = [projects EXCEPT ![project_id] =
                [@ EXCEPT !.validation_score = score,
                          !.validation_status = IF approved THEN 1 ELSE 2]]
         /\ last' = Ok("platform.set_project_validation", project_id, caller,
                       score, NoPaid,
                       << [name |-> "ValidationCompleted",
                           project_id |-> project_id, final_score |-> score,
                           approved |-> approved, timestamp |-> now] >>)
         /\ UNCHANGED <<nonPlat, plat_owner, creators, creator_count,
                        project_count, subdomain_registry, creator_ens_names,
                        plat_platform_fee_bps, min_project_funding,
                        max_project_duration, plat_paused, admins,
                        plat_total_funding_raised, successful_projects,
                        active_creators, creator_projects,
                        approved_categories, category_projects>>

\* add_admin (admins[admin] = true) and remove_admin (admins[admin] = false),
\* afrocreate_platform.rs:327-337
plat_set_admin(caller, op, admin, value) ==
    IF ~(caller = plat_owner)
    THEN /\ last' = Fail(op, 0, 0, "Unauthorized", "Only owner")
         /\ UNCHANGED <<nonPlat, platVars>>
    ELSE /\ admins' = IF value THEN admins \cup {admin} ELSE admins \ {admin}
         /\ last' = Ok(op, 0, caller, 0, NoPaid, <<>>)
         /\ UNCHANGED <<nonPlat, plat_owner, creators, projects, creator_count,
                        project_count, subdomain_registry, creator_ens_names,
                        plat_platform_fee_bps, min_project_funding,
                        max_project_duration, plat_paused,
                        plat_total_funding_raised, successful_projects,
                        active_creators, creator_projects,
                        approved_categories, category_projects>>

add_admin(caller, admin) == plat_set_admin(caller, "platform.add_admin", admin, TRUE)

remove_admin(caller, admin) ==
    plat_set_admin(caller, "platform.remove_admin", admin, FALSE)

----------------------------------------------------------------------------
\* a call of calculate_consensus on the list drawn at the start
consensus_call ==
    /\ consensus_result' = calculate_consensus(consensus_amounts)
    /\ last' = Ok("oracle.calculate_consensus", 0, Zero, 0, NoPaid, <<>>)
    /\ UNCHANGED <<fundingVars, nftVars, oracleVars, distVars, platVars,
                   consensus_amounts, now>>

Tick ==
    /\ now < MaxTime
    /\ now' = now + 1
    /\ last' = Ok("tick", 0, Zero, 0, NoPaid, <<>>)
    /\ UNCHANGED <<fundingVars, nftVars, extVars>>

Next ==
    \/ \E fee \in FeeChoices : initialize(OwnerAddr, fee)
    \/ \E c \in AdminCallers, p \in Campaigns, t \in Targets, d \in Deadlines,
          m \in ModelCodes, ms \in MilestoneChoices :
            setup_project_funding(c, p, t, d, CreatorAddr, m, ms)
    \/ \E p \in Campaigns, b \in Backers, a \in Amounts : fund_project(p, b, a)
    \/ \E p \in Campaigns, rej \in RefundRejects : process_refunds("b1", p, rej)
    \/ \E c \in AdminCallers, p \in Campaigns, rej \in CreatorRejects :
            finalize_successful_project(c, p, rej)
    \/ \E c \in AdminCallers, p \in Campaigns, m \in MilestoneIds :
            release_milestone_funds(c, p, m, {})
    \/ \E c \in AdminCallers, fee \in FeeChoices : set_platform_fee(c, fee)
    \/ \E c \in AdminCallers, p \in Campaigns, rej \in OwnerRejects :
            emergency_withdraw(c, p, rej)
    \/ Tick

Spec == Init /\ [][Next]_vars

\* The contribution path of ProjectFunding together with the RevenueShareNFT
\* registry
NextShare ==
    \/ initialize(OwnerAddr, 300)
    \/ setup_project_funding(OwnerAddr, 1, MIN_CONTRIBUTION + MaxAmount, 1, CreatorAddr, 0, <<>>)
    \/ \E a \in {MIN_CONTRIBUTION, MaxAmount} : fund_project(1, "b1", a)
    \/ nft_initialize(OwnerAddr)
    \/ \E bps \in {4000, 6000} :
            /\ next_token_id <= MaxShareTokens
            /\ nft_mint_revenue_nft(OwnerAddr, "b1", 1, MIN_CONTRIBUTION, bps)
    \/ batch_distribute_revenue(OwnerAddr, 1, 333)
    \/ \E c \in Backers, t \in 1 .. MaxShareTokens : claim_revenue(c, t, {})
    \/ \E c \in Backers, t \in 1 .. MaxShareTokens : remove_transfer_restriction(c, t)
    \/ \E c \in Backers, to \in Backers, t \in 1 .. MaxShareTokens :
            transfer_from(c, c, to, t)
    \/ nft_receive(MaxRevenue)

SpecShare == Init /\ [][NextShare]_vars

\* The RevenueShareNFT registry on its own
NextRegistry ==
    \/ nft_initialize(OwnerAddr)
    \/ \E bps \in {4000, 6000} :
            /\ next_token_id <= MaxShareTokens
            /\ nft_mint_revenue_nft(OwnerAddr, "b1", 1, MIN_CONTRIBUTION, bps)
    \/ batch_distribute_revenue(OwnerAddr, 1, 333)
    \/ \E c \in {OwnerAddr, "b1"}, a \in {0, MIN_CLAIM_AMOUNT} :
            set_min_claim_amount(c, a)
    \/ \E c \in Backers, t \in 1 .. MaxShareTokens : claim_revenue(c, t, {})
    \/ \E c \in Backers, t \in 1 .. MaxShareTokens : remove_transfer_restriction(c, t)
    \/ \E c \in Backers, to \in Backers, t \in 1 .. MaxShareTokens :
            transfer_from(c, c, to, t)
    \/ nft_receive(MaxRevenue)

SpecRegistry == Init /\ [][NextRegistry]_vars

\* ProjectFunding with two projects and recipients that call back
ReentryCreators == {OwnerAddr, CreatorAddr}

NextReentry ==
    \/ initialize(OwnerAddr, 300)
    \/ \E p \in Projects, c \in ReentryCreators :
            setup_project_funding(OwnerAddr, p, MIN_CONTRIBUTION + MaxAmount, 1, c, 0, <<>>)
    \/ \E p \in Projects, b \in Backers : fund_project(p, b, MaxAmount)
    \/ \E p \in Projects, q \in Projects :
            finalize_successful_project_reentered(OwnerAddr, p, q)
    \/ \E p \in Projects, q \in Projects : process_refunds_reentered("b1", p, q)
    \/ Tick

SpecReentry == Init /\ [][NextReentry]_vars

\* The OracleManager on its own
NextOracle ==
    \/ oracle_initialize(OwnerAddr)
    \/ \E c \in {OwnerAddr, "o1"}, o \in {"o1", "o2", "o3", Zero}, s \in {"spotify", ""} :
            register_oracle(c, o, s, 1)
    \/ \E o \in OracleAddrs, s \in Sources, a \in SubmitAmounts :
            submit_revenue_data(o, 1, s, a, now)
    \/ process_consensus("b1", 1, "spotify")
    \/ \E c \in {OwnerAddr, "o1"}, ps \in ParameterChoices :
            update_consensus_parameters(c, ps[1], ps[2])

SpecOracle == Init /\ [][NextOracle]_vars

\* The RevenueDistributor on its own
\* source and amount offered to add_revenue_source
DistInputs == {<<"soundcloud", 333>>, <<"spotify", 1000>>, <<"tiktok", 333>>}
DistFees == {1000, 1500}             \* new_fee_bps offered to set_platform_fee

NextDistributor ==
    \/ dist_initialize(OwnerAddr)
    \/ \E in \in DistInputs : add_revenue_source(OwnerAddr, 1, in[1], in[2])
    \/ distribute_revenue("b1", 1)
    \/ claim_creator_revenue(CreatorAddr, 1, {})
    \/ add_revenue_source_config(OwnerAddr, "spotify", "o1", FALSE)
    \/ \E fee \in DistFees : dist_set_platform_fee(OwnerAddr, fee)
    \/ dist_receive(MaxDistRevenue)
    \/ Tick

SpecDistributor == Init /\ [][NextDistributor]_vars

\* The OracleManager's reports and disputes next to the RevenueDistributor;
\* the owner registers the oracles in the order o1, o2, o3
RegistrationOrder == <<"o1", "o2", "o3">>

NextDispute ==
    \/ oracle_initialize(OwnerAddr)
    \/ /\ oracle_count < Len(RegistrationOrder)
       /\ register_oracle(OwnerAddr, RegistrationOrder[oracle_count + 1], "spotify", 1)
    \/ \E o \in OracleAddrs : submit_revenue_data(o, 1, "spotify", 1000, now)
    \/ dispute_revenue_report("b1", 1, "spotify")
    \/ dist_initialize(OwnerAddr)
    \/ \E v \in BOOLEAN : add_revenue_source_config(OwnerAddr, "spotify", "o1", v)
    \/ \E s \in {"spotify", "soundcloud"} :
            add_revenue_source(OwnerAddr, 1, s, 1000)
    \/ distribute_revenue("b1", 1)
    \/ challenge_revenue_report("b1", 1, "spotify", "b1")
    \/ Tick

SpecDispute == Init /\ [][NextDispute]_vars

\* The five guarded functions of ProjectFunding, the registry and the
\* distributor, each with calls that fail after the guard was raised
NextGuards ==
    \/ initialize(OwnerAddr, 300)
    \/ setup_project_funding(OwnerAddr, 1, MIN_CONTRIBUTION + MaxAmount, 1, CreatorAddr, 0, <<>>)
    \/ \E a \in {MIN_CONTRIBUTION - 1, MaxAmount} : fund_project(1, "b1", a)
    \/ process_refunds("b1", 1, {})
    \/ nft_initialize(OwnerAddr)
    \/ /\ next_token_id <= MaxShareTokens
       /\ nft_mint_revenue_nft(OwnerAddr, "b1", 1, MIN_CONTRIBUTION, 6000)
    \/ batch_distribute_revenue(OwnerAddr, 1, 333)
    \/ \E c \in Backers : claim_revenue(c, 1, {})
    \/ nft_receive(MaxRevenue)
    \/ dist_initialize(OwnerAddr)
    \/ add_revenue_source(OwnerAddr, 1, "soundcloud", 1000)
    \/ distribute_revenue("b1", 1)
    \/ claim_creator_revenue(CreatorAddr, 1, {})
    \/ dist_receive(MaxDistRevenue)
    \/ Tick

SpecGuards == Init /\ [][NextGuards]_vars

\* The RevenueShareNFT registry with several claims on one project
NextHolders ==
    \/ nft_initialize(OwnerAddr)
    \/ \E to \in Backers, bps \in {4000, 6000} :
            /\ next_token_id <= MaxTokens
            /\ nft_mint_revenue_nft(OwnerAddr, to, 1, MIN_CONTRIBUTION, bps)
    \/ batch_distribute_revenue(OwnerAddr, 1, 333)
    \/ \E c \in Backers, t \in 1 .. MaxTokens : claim_revenue(c, t, {})
    \/ nft_receive(MaxRevenue)

SpecHolders == Init /\ [][NextHolders]_vars

\* The creator payout of the RevenueDistributor with two callers
NextCreatorClaim ==
    \/ dist_initialize(OwnerAddr)
    \/ \E in \in DistInputs : add_revenue_source(OwnerAddr, 1, in[1], in[2])
    \/ distribute_revenue("b1", 1)
    \/ \E c \in {CreatorAddr, "b1"} : claim_creator_revenue(c, 1, {})
    \/ dist_receive(MaxDistRevenue)
    \/ Tick

SpecCreatorClaim == Init /\ [][NextCreatorClaim]_vars

\* Contributions and refunds of ProjectFunding on an all-or-nothing project
NextRefund ==
    \/ initialize(OwnerAddr, 300)
    \/ setup_project_funding(OwnerAddr, 1, MIN_CONTRIBUTION + MaxAmount, 1, CreatorAddr, 0, <<>>)
    \/ \E b \in Backers, a \in {MIN_CONTRIBUTION, MaxAmount} : fund_project(1, b, a)
    \/ \E c \in Backers, rej \in RefundRejects : process_refunds(c, 1, rej)
    \/ Tick

SpecRefund == Init /\ [][NextRefund]_vars

\* The AfroCreatePlatform, with the fee setter of ProjectFunding
PlatformFees == {500, 1500}     \* new_fee_bps offered to the set_platform_fee functions
FundingUpdates == {0, 300, 1000}   \* amount_raised offered to update_project_funding

NextPlatform ==
    \/ \E c \in {OwnerAddr, "b1"} : plat_initialize(c, 1000, 90)
    \/ \E c \in {CreatorAddr, "b1"}, n \in EnsNames :
            register_creator(c, n, "Nigerian")
    \/ \E c \in {CreatorAddr, "b2"}, cat \in Categories, t \in {0, 1000},
          d \in {0, 30} :
            create_project(c, "Afrobeats Album", cat, t, d)
    \/ \E c \in {OwnerAddr, "b1"}, fee \in PlatformFees : plat_set_platform_fee(c, fee)
    \/ \E c \in {OwnerAddr, "b1"} : plat_pause(c)
    \/ \E c \in {OwnerAddr, "b1"} : plat_unpause(c)
    \/ \E c \in {OwnerAddr, "b1"}, p \in PlatformProjectIds, a \in FundingUpdates :
            update_project_funding(c, p, a)
    \/ \E p \in PlatformProjectIds, approved \in BOOLEAN :
            set_project_validation(OwnerAddr, p, 80, approved)
    \/ add_admin(OwnerAddr, "b1")
    \/ remove_admin(OwnerAddr, "b1")
    \/ initialize(OwnerAddr, 300)
    \/ \E c \in {OwnerAddr, "b1"}, fee \in PlatformFees : set_platform_fee(c, fee)

SpecPlatform == Init /\ [][NextPlatform]_vars

\* calculate_consensus applied to every list of at most MaxSubmissions amounts
AmountLists ==
    UNION {[1 .. n -> AmountChoices] : n \in 0 .. MaxSubmissions}
        \cup {<<100, 102, 98, 150>>}

InitConsensus ==
    /\ InitContracts
    /\ consensus_amounts \in AmountLists
    /\ consensus_result = <<0, 0>>

NextConsensus == consensus_call

SpecConsensus == InitConsensus /\ [][NextConsensus]_vars

----------------------------------------------------------------------------
(* Properties *)

HeldContributions(p) == SumOver(backer_contributions[p], Addresses)

PaidTotal(call) == SumOver(call.paid, Addresses)

BackerSet(p) == {project_backers[p][i] : i \in 1 .. Len(project_backers[p])}

C2_SuccessfulIffTargetReached ==
    [][(last'.op = "fund_project" /\ last'.ok) =>
        LET p == last'.project
            reached == project_funding[p].raised + last'.value
                          >= project_funding[p].target
        IN /\ reached => project_funding'[p].status = 1
           /\ ~reached => project_funding'[p].status = 0]_vars

C2_Witness ==
    /\ last.op = "fund_project" /\ last.ok
    /\ funding_models[last.project] = 2
    /\ project_funding[last.project].status = 1
    /\ project_funding[last.project].raised = project_funding[last.project].target

\* C3: once a project's status is Successful no call changes it.
C3_SuccessfulIsFinal ==
    [][\A p \in Projects :
        project_funding[p].status = 1 => project_funding'[p].status = 1]_vars

C3_Witness ==
    /\ last.op = "process_refunds"
    /\ project_funding[last.project].status = 1
    /\ now > project_funding[last.project].deadline
    /\ project_escrow[last.project] > 0

\* C4: in a process_refunds call the amounts transferred sum to at most the
\* escrow balance at the start of the call, and the call does not fail for
\* lack of funds.
C4_RefundsWithinEscrow ==
    [][last'.op = "process_refunds" =>
        /\ last'.kind # "InsufficientFunds"
        /\ last'.msg # "insufficient balance"
        /\ PaidTotal(last') <= project_escrow[last'.project]]_vars

C4_Witness ==
    /\ last.op = "process_refunds" /\ last.ok
    /\ last.paid["b1"] > 0
    /\ last.paid["b2"] > 0

\* C5: a successful process_refunds pays every listed backer with a positive
\* contribution c exactly floor(c * escrow / raised), escrow and raised taken
\* at the start of the call, and sets that contribution to zero.
C5_ProportionalRefund ==
    [][(last'.op = "process_refunds" /\ last'.ok) =>
        LET p == last'.project IN
        \A b \in BackerSet(p) :
            backer_contributions[p][b] > 0 =>
                /\ last'.paid[b] =
                      (backer_contributions[p][b] * project_escrow[p])
                          \div project_funding[p].raised
                /\ backer_contributions'[p][b] = 0]_vars

C5_Witness ==
    /\ last.op = "process_refunds" /\ last.ok
    /\ last.paid["b2"] = MIN_CONTRIBUTION
    /\ backer_contributions[last.project]["b2"] = 0
    /\ project_funding[last.project].raised > MIN_CONTRIBUTION

\* The refund condition of the specification, for a call at the current time
C6_Eligible(p) ==
    LET info == project_funding[p] IN
    /\ \/ /\ funding_models[p] \notin {1, 2}      \* AllOrNothing
          /\ \/ info.status = 2
             \/ (now > info.deadline /\ info.raised < info.target)
       \/ /\ funding_models[p] = 2                 \* MilestoneBased
          /\ info.status = 3
    /\ now <= info.deadline + refund_period

\* C6: process_refunds transfers value only when the project is eligible for
\* refunds and the refund period has not expired; in every other state it
\* fails and changes no contribution and no escrow balance.
C6_RefundOnlyWhenEligible ==
    [][last'.op = "process_refunds" =>
        LET p == last'.project IN
        /\ PaidTotal(last') > 0 => C6_Eligible(p)
        /\ ~C6_Eligible(p) =>
              /\ ~last'.ok
              /\ UNCHANGED <<backer_contributions, project_escrow, balance>>]_vars

C6_Witness ==
    /\ last.op = "process_refunds" /\ ~last.ok
    /\ funding_models[last.project] = 1
    /\ now > project_funding[last.project].deadline
    /\ now <= project_funding[last.project].deadline + refund_period
    /\ project_funding[last.project].raised < project_funding[last.project].target
    /\ HeldContributions(last.project) > 0

\* C7: fund_project fails and changes nothing when the contribution is below
\* the minimum, the project is not configured, the status is not Active or
\* the deadline has passed; a contribution equal to the minimum made exactly
\* at the deadline on an Active project is accepted.
C7_FundRejections ==
    [][last'.op = "fund_project" =>
        LET info == project_funding[last'.project]
            amount == last'.value
        IN /\ (\/ amount < min_contribution
               \/ info.target = 0
               \/ info.status # 0
               \/ now > info.deadline)
                 => ~last'.ok /\ UNCHANGED fundingVars
           /\ (/\ amount = min_contribution
               /\ info.target > 0
               /\ info.status = 0
               /\ now = info.deadline)
                 => last'.ok]_vars

C7_Witness ==
    /\ last.op = "fund_project" /\ last.ok
    /\ last.value = min_contribution
    /\ now = project_funding[last.project].deadline
    /\ project_funding[last.project].status = 0

\* C8: every successful fund_project of amount a increases escrow, the
\* backer's contribution and raised by a and mints exactly one revenue-share
\* claim for the backer in the registry.
C8_FundMintsOneClaim ==
    [][(last'.op = "fund_project" /\ last'.ok) =>
        LET p == last'.project
            b == last'.sender
            a == last'.value
        IN /\ project_escrow'[p] = project_escrow[p] + a
           /\ backer_contributions'[p][b] = backer_contributions[p][b] + a
           /\ project_funding'[p].raised = project_funding[p].raised + a
           /\ next_token_id' = next_token_id + 1
           /\ owners'[next_token_id] = b]_vars

\* C9: the share in basis points that fund_project computes for the claim of
\* a contribution a is floor(a * 10000 / raised), raised including a; the
\* registry stores the share it is given at mint time, and no later call
\* changes the share of an existing claim.
C9_ShareFixedAtMint ==
    [][/\ (last'.op = "fund_project" /\ last'.ok) =>
             /\ last'.events[1].name = "RevenueNFTMinted"
             /\ last'.events[1].revenue_share_bps =
                  (last'.value * 10000)
                      \div (project_funding[last'.project].raised + last'.value)
       /\ (last'.op = "nft.mint_revenue_nft" /\ last'.ok) =>
             token_revenue_share'[next_token_id] = last'.events[2].revenue_share_bps
       /\ \A t \in TokenIds :
             owners[t] # Zero => token_revenue_share'[t] = token_revenue_share[t]]_vars

C9_Witness ==
    /\ last.op = "fund_project" /\ last.ok
    /\ last.events[1].revenue_share_bps \notin {0, 10000}
    /\ (last.events[1].revenue_share_bps * project_funding[last.project].raised)
          # last.value * 10000
    /\ \E t \in TokenIds :
          /\ owners[t] # Zero
          /\ token_claimed_revenue[t] > 0
          /\ ~transfer_restrictions[t]

\* C10: a successful finalize_successful_project on an AllOrNothing or
\* Flexible project with escrow E takes platformFee = floor(E * feeBps / 10000),
\* transfers exactly E - platformFee to the creator, adds platformFee to the
\* platform treasury and sets the escrow to zero.
C10_FinalizeSplit ==
    [][(/\ last'.op = "finalize_successful_project" /\ last'.ok
        /\ funding_models[last'.project] # 2) =>
        LET p == last'.project
            E == project_escrow[p]
            fee == (E * platform_fee_bps) \div 10000
        IN /\ last'.paid[project_funding[p].creator] = E - fee
           /\ PaidTotal(last') = E - fee
           /\ balance' = balance - (E - fee)
           /\ platform_treasury' = platform_treasury + fee
           /\ project_escrow'[p] = 0
           /\ PaidTotal(last') + (platform_treasury' - platform_treasury) = E]_vars

C10_Witness ==
    /\ last.op = "finalize_successful_project" /\ last.ok
    /\ funding_models[last.project] = 1
    /\ last.paid[CreatorAddr] > 0
    /\ platform_treasury > 0
    /\ project_escrow[last.project] = 0

\* C11: after finalize_successful_project has succeeded for a project, a
\* further finalize_successful_project call on that project fails with an
\* invalid-state error (the status check of project_funding.rs:302).
C11_FinalizeOnlyOnce ==
    [][(/\ last.op = "finalize_successful_project" /\ last.ok
        /\ last'.op = "finalize_successful_project"
        /\ last'.project = last.project) =>
            (~last'.ok /\ last'.msg = "Project not successful")]_vars

RECURSIVE SumSeq(_)
SumSeq(s) == IF s = <<>> THEN 0 ELSE Head(s) + SumSeq(Tail(s))

\* C13: for every configured MilestoneBased project the funding amounts of
\* its milestones sum to its target.
C13_MilestonesSumToTarget ==
    \A p \in Projects :
        (project_funding[p].target > 0 /\ funding_models[p] = 2) =>
            SumSeq(project_milestones[p]) = project_funding[p].target

\* C14: while process_refunds, release_milestone_funds,
\* finalize_successful_project or claim_revenue performs its transfer the
\* reentrancy guard is raised, and a call into one of these operations made
\* from inside the transfer fails (and so changes no state).
C14_NestedCallsFail ==
    [][last'.nested.op # "none" =>
        (last'.nested.locked /\ ~last'.nested.ok)]_vars

\* floor(totalRevenue * shareBasisPoints / 10000) of an existing claim
Entitled(t) ==
    (project_total_revenue[token_project[t]] * token_revenue_share[t]) \div 10000

\* C15: for every existing claim calculate_claimable_revenue is
\* floor(totalRevenue * shareBasisPoints / 10000) - claimedRevenue, zero when
\* that is negative, and claimable plus claimed never exceeds
\* floor(totalRevenue * shareBasisPoints / 10000).
C15_ClaimableWithinEntitlement ==
    \A t \in TokenIds :
        owners[t] # Zero =>
            /\ calculate_claimable_revenue(t) =
                  IF Entitled(t) - token_claimed_revenue[t] < 0 THEN 0
                  ELSE Entitled(t) - token_claimed_revenue[t]
            /\ calculate_claimable_revenue(t) + token_claimed_revenue[t] <= Entitled(t)

C15_Witness ==
    \E t \in TokenIds :
        /\ owners[t] # Zero
        /\ token_claimed_revenue[t] > 0
        /\ calculate_claimable_revenue(t) > 0
        /\ Entitled(t) * 10000 # project_total_revenue[token_project[t]] * token_revenue_share[t]

\* C16: a successful claim_revenue leaves the claim with nothing claimable;
\* as long as the project's total revenue does not grow it stays so, and a
\* claim_revenue call on a claim with nothing claimable pays out nothing.
C16_SecondClaimPaysNothing ==
    [][/\ (last'.op = "nft.claim_revenue" /\ last'.ok) =>
            ClaimableRevenue(project_total_revenue'[token_project'[last'.project]],
                             token_revenue_share'[last'.project],
                             token_claimed_revenue'[last'.project]) = 0
       /\ \A t \in TokenIds :
            (/\ owners[t] # Zero
             /\ calculate_claimable_revenue(t) = 0
             /\ project_total_revenue'[token_project[t]]
                    <= project_total_revenue[token_project[t]]) =>
                ClaimableRevenue(project_total_revenue'[token_project'[t]],
                                 token_revenue_share'[t],
                                 token_claimed_revenue'[t]) = 0
       /\ (/\ last'.op = "nft.claim_revenue"
           /\ owners[last'.project] # Zero
           /\ calculate_claimable_revenue(last'.project) = 0) =>
                /\ PaidTotal(last') = 0
                /\ nft_balance' = nft_balance
                /\ token_claimed_revenue' = token_claimed_revenue]_vars

\* a second claim_revenue, accepted by the minimum and paying nothing
C16_Witness ==
    /\ last.op = "nft.claim_revenue" /\ last.ok
    /\ PaidTotal(last) = 0
    /\ token_claimed_revenue[last.project] > 0
    /\ token_claimed_revenue[last.project] = Entitled(last.project)

\* C17: a successful claim_revenue transfers to the holder exactly the
\* claimable amount and increases claimedRevenue by the amount transferred.
C17_ClaimPaysFullDelta ==
    [][(last'.op = "nft.claim_revenue" /\ last'.ok) =>
        LET t == last'.project
            holder == owners[t]
        IN /\ last'.paid[holder] = calculate_claimable_revenue(t)
           /\ token_claimed_revenue'[t] - token_claimed_revenue[t]
                  = last'.paid[holder]]_vars

\* C18: no claim is transferred before its cooldown window has elapsed since
\* minting.  Every claim is minted at a time >= 0, so at a time below
\* TRANSFER_RESTRICTION_PERIOD the window of no claim has elapsed.
C18_NoTransferInCooldown ==
    [][(last'.op = "nft.transfer_from" /\ last'.ok) =>
            now >= TRANSFER_RESTRICTION_PERIOD]_vars

\* the k-th smallest of the amounts a, found by counting
KthSmallest(a, k) ==
    CHOOSE v \in {a[i] : i \in 1 .. Len(a)} :
        /\ Cardinality({i \in 1 .. Len(a) : a[i] < v}) < k
        /\ k <= Cardinality({i \in 1 .. Len(a) : a[i] <= v})

MedianOf(a) ==
    LET n == Len(a) IN
    IF n % 2 = 0
    THEN (KthSmallest(a, n \div 2) + KthSmallest(a, n \div 2 + 1)) \div 2
    ELSE KthSmallest(a, (n + 1) \div 2)

\* floor(100 * k / n), k the number of amounts within 10% of the median m:
\* |a[i] - m| <= m / 10
AgreementOf(a) ==
    LET m == MedianOf(a)
        k == Cardinality({i \in 1 .. Len(a) :
                /\ 10 * (a[i] - m) <= m
                /\ 10 * (m - a[i]) <= m})
    IN (100 * k) \div Len(a)

\* C19: for every non-empty list of amounts calculate_consensus returns the
\* median of the sorted amounts (for an even count the floor of the mean of
\* the two middle values) and the agreement floor(100 * k / n), k the number
\* of amounts within 10% of the median; [100, 102, 98, 150] gives 101 and 75.
C19_ConsensusIsMedian ==
    (last.op = "oracle.calculate_consensus" /\ consensus_amounts # <<>>) =>
        /\ consensus_result =
              <<MedianOf(consensus_amounts), AgreementOf(consensus_amounts)>>
        /\ consensus_amounts = <<100, 102, 98, 150>> =>
              consensus_result = <<101, 75>>

C19_Witness ==
    /\ last.op = "oracle.calculate_consensus"
    /\ consensus_amounts = <<100, 102, 98, 150>>
    /\ consensus_result = <<101, 75>>

\* C20: a consensus result for (project, source) is written or replaced only
\* when at least min_oracles_required distinct registered oracles hold a
\* submission for it and the agreement stored with it is at least
\* consensus_threshold.
C20_CommitNeedsQuorum ==
    [][\A p \in Projects, s \in Sources :
        (/\ last'.op \in {"oracle.submit_revenue_data", "oracle.process_consensus"}
         /\ revenue_reports'[p][s] # revenue_reports[p][s]) =>
            /\ Cardinality({o \in OracleAddrs :
                    /\ oracles'[o].oracle_address # Zero
                    /\ oracle_submissions'[p][s][o] > 0}) >= min_oracles_required
            /\ revenue_reports'[p][s].verification_score >= consensus_threshold]_vars

\* C21: a call that commits a consensus result for (project, source) leaves
\* no submission of that round in storage, and a process_consensus call that
\* commits nothing leaves every submission in place.
C21_CommitEmptiesRound ==
    [][/\ \A p \in Projects, s \in Sources :
            (/\ last'.op \in {"oracle.submit_revenue_data", "oracle.process_consensus"}
             /\ revenue_reports'[p][s] # revenue_reports[p][s]) =>
                \A o \in OracleAddrs : oracle_submissions'[p][s][o] = 0
       /\ (last'.op = "oracle.process_consensus"
             /\ revenue_reports' = revenue_reports) =>
                oracle_submissions' = oracle_submissions]_vars


\* C22: a result marked by dispute_revenue_report stays disputed under every
\* later call (the contracts offer no resolution); while it is disputed,
\* add_revenue_source accepts no amount for its (project, source) when the
\* source requires verification, and distribute_revenue pays out no project
\* that holds revenue of that source.
C22_DisputeHaltsPayouts ==
    [][\A p \in Projects, s \in Sources :
        revenue_reports[p][s].is_disputed =>
            /\ revenue_reports'[p][s].is_disputed
            /\ ~(/\ last'.op = "dist.add_revenue_source" /\ last'.ok
                 /\ last'.project = p
                 /\ last'.events[1].source = s
                 /\ revenue_sources[s].verification_required)
            /\ ~(/\ last'.op = "dist.distribute_revenue" /\ last'.ok
                 /\ last'.project = p
                 /\ project_revenue_sources[p][s] > 0)]_vars

\* C23: add_revenue_source accepts an amount only for a supported, active
\* source and, when the source requires verification, only if the oracle
\* manager holds a committed result of that amount for the (project, source);
\* total_revenue changes in no other way.
C23_AcceptsOnlyVerified ==
    [][\A p \in Projects :
        /\ (last'.op = "dist.add_revenue_source" /\ last'.ok /\ last'.project = p) =>
              LET s == last'.events[1].source IN
              /\ is_supported_source(s)
              /\ revenue_sources[s].is_active
              /\ revenue_sources[s].verification_required =>
                    /\ s \in Sources
                    /\ revenue_reports[p][s].project_id = p
                    /\ revenue_reports[p][s].amount = last'.value
        /\ project_revenue'[p].total_revenue # project_revenue[p].total_revenue =>
              (last'.op = "dist.add_revenue_source" /\ last'.ok /\ last'.project = p)]_vars

\* an amount refused for a source that requires verification and has an
\* oracle configured, while the oracle manager holds no result for it
C23_Witness ==
    /\ last.op = "dist.add_revenue_source" /\ ~last.ok
    /\ last.msg = "Oracle verification failed"
    /\ revenue_sources["spotify"].verification_required
    /\ revenue_reports[1]["spotify"].project_id = 0
    /\ project_revenue[1].total_revenue > 0

\* C24: a project's total revenue never decreases, an accepted
\* add_revenue_source call increases it by exactly the amount of the call, and
\* in every reachable state it is the sum of the project's per-source amounts.
C24_TotalRevenueIsSourceSum ==
    /\ [](\A p \in Projects :
            project_revenue[p].total_revenue =
                SumOver(project_revenue_sources[p], AllSources))
    /\ [][\A p \in Projects :
            /\ project_revenue'[p].total_revenue >= project_revenue[p].total_revenue
            /\ (last'.op = "dist.add_revenue_source" /\ last'.ok /\ last'.project = p) =>
                    project_revenue'[p].total_revenue =
                        project_revenue[p].total_revenue + last'.value]_vars

\* an amount accepted on top of earlier revenue of two sources, part of it
\* distributed and part of the creator's share claimed
C24_Witness ==
    /\ last.op = "dist.add_revenue_source" /\ last.ok
    /\ project_revenue[1].total_revenue > last.value
    /\ project_revenue_sources[1]["soundcloud"] > 0
    /\ project_revenue_sources[1]["spotify"] > 0
    /\ total_distributed[1] > 0
    /\ creator_claimed_revenue[1][CreatorAddr] > 0

\* C25: a successful distribute_revenue call on an available amount A reports
\* platform_fee = floor(A * platform_fee_bps / 10000), creator_share =
\* floor(A * creator_share_bps / 10000) and community_share = A - platform_fee
\* - creator_share; the parts sum to A, and 1000 at 300 and 3000 basis points
\* gives 30, 300 and 670.
C25_DistributionSplit ==
    [][\A p \in Projects :
        (last'.op = "dist.distribute_revenue" /\ last'.ok /\ last'.project = p) =>
            LET A == project_revenue[p].total_revenue - total_distributed[p]
                e == last'.events[1]
                fee_bps == dist_platform_fee_bps
                creator_bps == project_revenue[p].creator_share_bps
            IN /\ e.total_amount = A
               /\ e.platform_fee * 10000 <= A * fee_bps
               /\ A * fee_bps < (e.platform_fee + 1) * 10000
               /\ e.creator_share * 10000 <= A * creator_bps
               /\ A * creator_bps < (e.creator_share + 1) * 10000
               /\ e.community_share = A - e.platform_fee - e.creator_share
               /\ e.community_share >= 0
               /\ e.platform_fee + e.creator_share + e.community_share = A
               /\ (A = 1000 /\ fee_bps = 300 /\ creator_bps = 3000) =>
                    (/\ e.platform_fee = 30
                     /\ e.creator_share = 300
                     /\ e.community_share = 670)]_vars

\* a distribution of 666 (parts 19, 199 and 448, with the rounding remainder
\* in the community share) followed by the distribution of 1000
C25_Witness ==
    /\ last.op = "dist.distribute_revenue" /\ last.ok
    /\ last.events[1].total_amount = 1000
    /\ last.events[1].platform_fee = 30
    /\ last.events[1].creator_share = 300
    /\ last.events[1].community_share = 670
    /\ Len(distribution_history[1]) = 2
    /\ distribution_history[1][1].amount = 666

\* C26: distribute_revenue succeeds only on an available amount of at least
\* min_distribution_amount and at least distribution_frequency after the last
\* distribution; it then makes total_distributed equal to total_revenue and
\* sets last_distribution_timestamp to the current time.  total_distributed
\* never exceeds total_revenue and two distributions of a project are at least
\* distribution_frequency apart.
C26_DistributeGuards ==
    /\ [](\A p \in Projects :
            /\ total_distributed[p] <= project_revenue[p].total_revenue
            /\ \A i \in 1 .. Len(distribution_history[p]) - 1 :
                    distribution_history[p][i + 1].timestamp >=
                        distribution_history[p][i].timestamp + distribution_frequency)
    /\ [][\A p \in Projects :
            (last'.op = "dist.distribute_revenue" /\ last'.ok /\ last'.project = p) =>
                /\ project_revenue[p].total_revenue - total_distributed[p]
                        >= min_distribution_amount
                /\ now >= project_revenue[p].last_distribution_timestamp
                              + distribution_frequency
                /\ total_distributed'[p] = project_revenue'[p].total_revenue
                /\ project_revenue'[p].last_distribution_timestamp = now']_vars

\* the second distribution of a project
C26_Witness ==
    /\ last.op = "dist.distribute_revenue" /\ last.ok
    /\ Len(distribution_history[1]) = 2
    /\ total_distributed[1] = project_revenue[1].total_revenue

\* C27: a successful distribute_revenue call adds its community share to the
\* project's revenue in the RevenueShareNFT registry, where the holders claim
\* it in proportion to their shares, and a claim_creator_revenue call made
\* next, while the contract holds enough ether, pays the creator the creator
\* share of that distribution.
C27_SharesBecomeClaimable ==
    [][\A p \in Projects :
        /\ (last'.op = "dist.distribute_revenue" /\ last'.ok /\ last'.project = p) =>
              project_total_revenue'[p] =
                    project_total_revenue[p] + last'.events[1].community_share
        /\ (/\ last.op = "dist.distribute_revenue" /\ last.ok /\ last.project = p
            /\ last.events[1].creator_share > 0
            /\ dist_balance >= last.events[1].creator_share
            /\ last'.op = "dist.claim_creator_revenue" /\ last'.project = p) =>
              (/\ last'.ok
               /\ last'.paid[CreatorAddr] = last.events[1].creator_share)]_vars

\* C28: a set_platform_fee call with a fee above 1000 basis points fails and
\* leaves the stored fee as it was (with 'Fee too high' when the caller is the
\* owner), and a successful call stores the fee it was given, which is at
\* most 1000; this holds for the platform and for ProjectFunding.
C28_FeeAtMostTenPercent ==
    [][/\ (last'.op = "platform.set_platform_fee" /\ last'.value > MAX_PLATFORM_FEE_BPS) =>
            (/\ ~last'.ok
             /\ last'.msg \in {"Fee too high", "Only owner"}
             /\ plat_platform_fee_bps' = plat_platform_fee_bps)
       /\ (last'.op = "platform.set_platform_fee" /\ last'.ok) =>
            (plat_platform_fee_bps' = last'.value
                /\ plat_platform_fee_bps' <= MAX_PLATFORM_FEE_BPS)
       /\ (last'.op = "set_platform_fee" /\ last'.value > MAX_PLATFORM_FEE_BPS) =>
            (/\ ~last'.ok
             /\ last'.msg \in {"Fee too high", "Only owner"}
             /\ platform_fee_bps' = platform_fee_bps)
       /\ (last'.op = "set_platform_fee" /\ last'.ok) =>
            (platform_fee_bps' = last'.value
                /\ platform_fee_bps' <= MAX_PLATFORM_FEE_BPS)]_vars

\* C29: the first initialize call on a fresh platform succeeds and makes the
\* caller the owner; every later call fails with 'Already initialized' and
\* leaves the owner, the fee and the limits as they were.
C29_InitializeOnce ==
    [][last'.op = "platform.initialize" =>
        IF plat_owner = Zero
        THEN last'.ok /\ plat_owner' = last'.sender /\ plat_owner' # Zero
        ELSE /\ ~last'.ok /\ last'.msg = "Already initialized"
             /\ UNCHANGED <<plat_owner, plat_platform_fee_bps,
                            min_project_funding, max_project_duration>>]_vars

C31_UpdateSetsFundingAndStatus ==
    [][\A p \in PlatformProjectIds, a \in FundingUpdates :
        update_project_funding(OwnerAddr, p, a) =>
            IF projects[p].project_id # 0
            THEN /\ last'.ok
                 /\ projects'[p].funding_raised = a
                 /\ projects'[p].status =
                        (IF a >= projects[p].funding_target THEN 1 ELSE 0)
            ELSE /\ ~last'.ok
                 /\ last'.msg = "Project not found"
                 /\ UNCHANGED platVars]_vars

\* the projects the platform has stored
CreatedProjects == {p \in PlatformProjectIds : projects[p].project_id # 0}

FundingRaisedOf(p) == projects[p].funding_raised

SuccessfulProjectsOf(c) ==
    {p \in CreatedProjects : projects[p].status = 1 /\ projects[p].creator = c}

Participants(p, s, submissions) ==
    {o \in OracleAddrs :
        /\ \E i \in 1 .. Len(source_oracles[s]) : source_oracles[s][i] = o
        /\ submissions[p][s][o] > 0}

\* process_consensus commits a result for the submissions given
Commits(p, s, submissions) ==
    LET reporters == SelectSeq(source_oracles[s],
                               LAMBDA o : submissions[p][s][o] > 0)
        amounts == [i \in 1 .. Len(reporters) |-> submissions[p][s][reporters[i]]]
    IN /\ Len(reporters) >= min_oracles_required
       /\ calculate_consensus(amounts)[2] >= consensus_threshold

\* the score the claim gives an oracle after a commit
SteppedScore(old, accurate) ==
    IF accurate THEN (IF old + 1 > 100 THEN 100 ELSE old + 1)
    ELSE (IF old < 2 THEN 0 ELSE old - 2)

\* the scores after a commit of the round (p, s), as the claim gives them
ScoresStepped(p, s) ==
    LET committed == revenue_reports'[p][s].amount IN
    \A o \in Participants(p, s, oracle_submissions') :
        LET amount == oracle_submissions'[p][s][o]
            accurate == /\ amount + committed \div 20 >= committed
                        /\ amount <= committed + committed \div 20
        IN /\ oracle_accuracy'[o] = SteppedScore(oracle_accuracy[o], accurate)
           /\ oracle_accuracy'[o] \in 0 .. 100

\* C33: when a consensus is committed, by a submission or by
\* process_consensus, the accuracy score of each participating oracle becomes
\* a function of its old score and of whether its submission is within 5% of
\* the committed value: one more, at most 100, when it is, and two less, at
\* least 0, when it is not.
C33_AccuracyStep ==
    [][/\ (process_consensus("b1", 1, "spotify")
                /\ Commits(1, "spotify", oracle_submissions))
            => ScoresStepped(1, "spotify")
       /\ \A o \in OracleAddrs, s \in Sources, a \in SubmitAmounts :
            (/\ submit_revenue_data(o, 1, s, a, now)
             /\ last'.ok
             /\ count_submissions(oracle_submissions'[1][s]) >= min_oracles_required
             /\ Commits(1, s, oracle_submissions'))
            => ScoresStepped(1, s)]_vars

\* the calls whose success is one of the transitions the event log is to
\* record: contribution, refund, milestone release, finalization, revenue
\* added, distribution, dispute raised, claim paid
LoggedTransitions ==
    {"fund_project", "process_refunds", "release_milestone_funds",
     "finalize_successful_project", "dist.add_revenue_source",
     "dist.distribute_revenue", "oracle.dispute_revenue_report",
     "dist.challenge_revenue_report", "dist.claim_creator_revenue",
     "nft.claim_revenue"}

\* C34: every successful call that makes one of these transitions logs at
\* least one event (evm::log only appends, so what is logged stays).
C34_TransitionsAreLogged ==
    [][(last'.ok /\ last'.op \in LoggedTransitions) =>
            Len(last'.events) >= 1]_vars

\* C35: between calls the reentrancy flags of ProjectFunding, of the
\* registry and of the distributor are down, whichever way fund_project,
\* process_refunds, claim_revenue, distribute_revenue and
\* claim_creator_revenue returned, and no call is refused as re-entrant.
C35_GuardsReleased ==
    /\ ~locked
    /\ ~nft_locked
    /\ ~dist_locked
    /\ last.msg # "Reentrant call"

\* a claim_creator_revenue call refused after it raised the guard, in a state
\* where a contribution, a registry claim, a distribution and a creator claim
\* have succeeded
C35_Witness ==
    /\ last.op = "dist.claim_creator_revenue"
    /\ ~last.ok
    /\ last.msg \in {"No claimable revenue", "insufficient balance"}
    /\ creator_claimed_revenue[1][CreatorAddr] > 0
    /\ Len(distribution_history[1]) > 0
    /\ total_amount_raised > 0
    /\ token_claimed_revenue[1] > 0

\* the claims minted for a project
ClaimsOf(p) == {t \in TokenIds : owners[t] # Zero /\ token_project[t] = p}

\* C36: for every project the claimed revenue of its claims adds up to at
\* most the project's total revenue in the registry, and the revenue shares
\* of its claims add up to at most 10000 basis points.
C36_ClaimsWithinRevenue ==
    \A p \in Projects :
        /\ SumOver(token_claimed_revenue, ClaimsOf(p)) <= project_total_revenue[p]
        /\ SumOver(token_revenue_share, ClaimsOf(p)) <= BPS_DENOMINATOR

\* the value the step takes in for project p: the contribution of a
\* successful fund_project call
ContributedInStep(p) ==
    IF last'.ok /\ last'.op = "fund_project" /\ last'.project = p
    THEN last'.value ELSE 0

\* the value the step moves out of the escrow of ProjectFunding: what the
\* call transferred, and the fee it booked to the treasury
MovedOutInStep ==
    IF last'.ok /\ last'.op \in {"release_milestone_funds", "process_refunds",
                                 "finalize_successful_project", "emergency_withdraw"}
    THEN PaidTotal(last') + (platform_treasury' - platform_treasury)
    ELSE 0

\* C37: every step changes the escrow balance of a project by what was
\* contributed to the project minus what was paid out on its behalf
\* (milestone release, refunds, finalization payout and fee, emergency
\* withdrawal), in one call and over all projects when a call is made within
\* another one; starting from an empty escrow this keeps the balance equal to
\* contributions minus payments, and the balance never goes below zero, so
\* the payments never exceed the contributions.
C37_EscrowAccounts ==
    [][/\ \A p \in Projects :
            /\ project_escrow'[p] >= 0
            /\ last'.nested.op = "none" =>
                    project_escrow'[p] - project_escrow[p] =
                        ContributedInStep(p)
                          - (IF last'.project = p THEN MovedOutInStep ELSE 0)
       /\ SumOver(project_escrow', Projects) - SumOver(project_escrow, Projects) =
            SumOver([p \in Projects |-> ContributedInStep(p)], Projects)
              - MovedOutInStep]_vars

\* C38: for every project the amounts paid by claim_creator_revenue, which
\* are the amounts booked in creator_claimed_revenue, add up over all callers
\* to at most floor(total_revenue * creator_share_bps / 10000), and a
\* successful claim_creator_revenue call is a call of the project's creator.
C38_CreatorPayoutBounded ==
    /\ [](\A p \in Projects :
            SumOver(creator_claimed_revenue[p], Addresses) <=
                (project_revenue[p].total_revenue
                    * project_revenue[p].creator_share_bps) \div BPS_DENOMINATOR)
    /\ [][(last'.ok /\ last'.op = "dist.claim_creator_revenue") =>
            /\ last'.sender = CreatorAddr
            /\ creator_claimed_revenue'[last'.project][last'.sender] =
                    creator_claimed_revenue[last'.project][last'.sender]
                        + PaidTotal(last')]_vars

\* C39: a successful process_refunds call leaves the project Failed; a
\* Failed project stays Failed and holds no escrow and no contribution, and
\* no process_refunds or fund_project call on it transfers any value: each
\* backer is refunded at most once.
C39_RefundedOnce ==
    /\ [](\A p \in Projects :
            project_funding[p].status = 2 =>
                /\ project_escrow[p] = 0
                /\ \A b \in Addresses : backer_contributions[p][b] = 0)
    /\ [][\A p \in Projects :
            /\ (last'.ok /\ last'.op = "process_refunds" /\ last'.project = p) =>
                    project_funding'[p].status = 2
            /\ project_funding[p].status = 2 =>
                    /\ project_funding'[p].status = 2
                    /\ (last'.project = p
                            /\ last'.op \in {"process_refunds", "fund_project"}) =>
                                (PaidTotal(last') = 0 /\ balance' = balance)]_vars

\* a second process_refunds call succeeds on a project whose backers were
\* refunded before, and pays nothing
C39_Witness ==
    /\ last.op = "process_refunds"
    /\ last.ok
    /\ PaidTotal(last) = 0
    /\ project_funding[last.project].status = 2
    /\ project_funding[last.project].raised > 0
    /\ platform_treasury = 0
    /\ balance = 0

====
